---- MODULE Spec2Model ----
(***************************************************************************)
(* ContextLens server: the session registry (SessionStore), the session   *)
(* processor (SessionProcessor) and the WebSocket hub (createWsHub).      *)
(*                                                                         *)
(* Node.js runs every synchronous stretch of a handler to completion, so   *)
(* one action of this model is one such stretch: the part of an async      *)
(* handler from its start (or from the point where an awaited call         *)
(* returns) up to its next await or its end.  A handler suspended at an    *)
(* await is a record in `tasks`; the awaited call returning is a Resume    *)
(* action.  An await of a call that did no I/O (persistSession when the    *)
(* mode is not mongo, onStart when nothing is upserted) is folded into the *)
(* stretch that precedes it.                                               *)
(***************************************************************************)
EXTENDS Integers, Sequences, FiniteSets, TLC

VARIABLES
    clock,          \* Date.now()
    sessions,       \* SessionStore.sessions: Map sessionId -> session object (index in heap)
    heap,           \* the SessionState objects ever constructed, by object identity
    tasks,          \* handler invocations suspended at an await
    sessionClients, \* hub: Map sessionId -> Set<WebSocket>
    clientSessions, \* hub: Map WebSocket -> Set<sessionId>
    connOpen,       \* ws.readyState === OPEN, per connection
    streams,        \* Deepgram stream handles ever created: "active" | "stopped"
    emitted,        \* every event handed to the hub or sent on a socket, in order
    calls,          \* every call made to a collaborator (gateway, store, metrics), in order
    inbox,          \* every inbound message (handler invocation) so far, in order of arrival
    genCount,       \* number of identifiers generated by crypto.randomUUID()
    env,            \* what the process was booted with: a Mongo store, a Deepgram key, a Gemini key,
                    \* config.maxRollingChars and config.maxDebriefChars
    step,           \* the last stretch that ran: which invocation, which session object, what it touched
    vision,         \* the VisionService object: its private fields
    timers,         \* the timeouts ever set by the service: "pending" | "fired" | "cleared"
    loops,          \* invocations of the service suspended at an await
    vlog            \* what the service and its callers did, in order

vars == <<clock, sessions, heap, tasks, sessionClients, clientSessions, connOpen,
          streams, emitted, calls, inbox, genCount, env, step, vision, timers, loops,
          vlog>>

----------------------------------------------------------------------------
(* Bounds of the model *)

\* inbound messages (handler invocations) in the concurrent specification
MaxEvents == 3
\* inbound messages in the start/restart specification
MaxStartEvents == 3
\* messages received in a behaviour of SpecThrottle
MaxThrottleEvents == 3
\* messages received in a behaviour of SpecTail
MaxTailEvents == 7
\* rollingSummary calls in flight at once in a behaviour of SpecTail
MaxPending == 2
\* messages received in a behaviour of SpecGemini
MaxGeminiEvents == 4
\* messages received in a behaviour of SpecDuration
MaxDurationEvents == 4
\* messages received in a behaviour of SpecEnd
MaxEndEvents == 4
\* messages received in a behaviour of SpecStream
MaxStreamEvents == 3
\* messages received in a behaviour of SpecWindow
MaxWindowEvents == 4
\* messages received in a behaviour of SpecIsolation
MaxIsolationEvents == 4
\* messages received in a behaviour of SpecGreeting
MaxGreetingEvents == 4
\* messages received in a behaviour of SpecOverlay
MaxOverlayEvents == 4
\* messages received in a behaviour of SpecPause
MaxPauseEvents == 5
\* messages received in a behaviour of SpecDelivery
MaxDeliveryEvents == 4
\* start() and stop() calls and ticks in a behaviour of SpecVision
MaxVisionCalls == 4
\* sendImage calls in a behaviour of SpecSendImage
MaxSendCalls == 2
\* messages in a behaviour of SpecSubscribers
MaxSubscriberEvents == 4
\* messages in a behaviour of SpecRestart
MaxRestartEvents == 5
\* latest wall-clock time in a behaviour of SpecPause
MaxPauseClock == 15000
\* latest wall-clock time in the concurrent specification
MaxClock == 12000
\* wall-clock time at which the server is constructed
StartClock == 10000

(* Program constants *)

summaryIntervalMs == 1500
summaryChars == 500
visionIntervalMs == 2000
maxRollingChars == 2000
maxDebriefChars == 8000
TailSize == 4

Undefined == "undefined"
NoNumber == 0 - 1
sttDefault == "mock"

Conns == {"c1", "c2"}
SessionIds == {"s1", "s2"}
GenIds == <<"g1", "g2">>
AllIds == SessionIds \cup {GenIds[i] : i \in 1..Len(GenIds)}

----------------------------------------------------------------------------
(* Strings.  A string is a sequence of runs [ch, n]: n copies of the      *)
(* character ch.                                                           *)

Str(ch, n) == IF n > 0 THEN <<[ch |-> ch, n |-> n]>> ELSE <<>>

RECURSIVE StrLen(_)
StrLen(s) == IF s = <<>> THEN 0 ELSE Head(s).n + StrLen(Tail(s))

Whitespace == {" ", "\n", "\t"}

\* s.trim().length > 0
TrimNonEmpty(s) == \E i \in 1..Len(s) : s[i].ch \notin Whitespace

\* the string without its first k characters (0 <= k)
RECURSIVE DropChars(_, _)
DropChars(s, k) ==
    IF k <= 0 \/ s = <<>> THEN s
    ELSE IF Head(s).n <= k THEN DropChars(Tail(s), k - Head(s).n)
    ELSE <<[ch |-> Head(s).ch, n |-> Head(s).n - k]>> \o Tail(s)

\* String.prototype.slice(start) with one argument
Slice(s, start) ==
    LET len == StrLen(s)
        from == IF start < 0 THEN (IF len + start > 0 THEN len + start ELSE 0)
                ELSE (IF start < len THEN start ELSE len)
    IN DropChars(s, from)

\* the string whose characters are the entries of chars
Lit(chars) == [i \in 1..Len(chars) |-> [ch |-> chars[i], n |-> 1]]

\* the same string with adjacent runs of one character merged
RECURSIVE Normalize(_)
Normalize(s) ==
    IF Len(s) < 2 THEN s
    ELSE LET rest == Normalize(Tail(s))
         IN IF Head(s).ch = Head(rest).ch
            THEN <<[ch |-> Head(s).ch, n |-> Head(s).n + Head(rest).n]>> \o Tail(rest)
            ELSE <<Head(s)>> \o rest

UpperCase ==
    [A |-> "a", B |-> "b", C |-> "c", D |-> "d", E |-> "e", F |-> "f", G |-> "g",
     H |-> "h", I |-> "i", J |-> "j", K |-> "k", L |-> "l", M |-> "m", N |-> "n",
     O |-> "o", P |-> "p", Q |-> "q", R |-> "r", S |-> "s", T |-> "t", U |-> "u",
     V |-> "v", W |-> "w", X |-> "x", Y |-> "y", Z |-> "z"]

\* String.prototype.toLowerCase
ToLowerCase(s) ==
    [i \in 1..Len(s) |->
        [ch |-> IF s[i].ch \in DOMAIN UpperCase THEN UpperCase[s[i].ch] ELSE s[i].ch,
         n |-> s[i].n]]

\* the string s contains the string w (String.prototype.includes, a regular
\* expression that is a plain word)
Includes(s, w) ==
    LET a == Normalize(s)
        b == Normalize(w)
        k == Len(b)
    IN \/ k = 0
       \/ \E i \in 1..Len(a) :
             /\ i + k - 1 <= Len(a)
             /\ \A j \in 1..k :
                   /\ a[i + j - 1].ch = b[j].ch
                   /\ IF j = 1 \/ j = k THEN a[i + j - 1].n >= b[j].n
                      ELSE a[i + j - 1].n = b[j].n

\* the index of the first run of s whose character is in set, Len(s) + 1 for none
RECURSIVE IndexOfRun(_, _, _)
IndexOfRun(s, set, i) ==
    IF i > Len(s) THEN i
    ELSE IF s[i].ch \in set THEN i
    ELSE IndexOfRun(s, set, i + 1)

\* String.prototype.trim
RECURSIVE TrimStart(_)
TrimStart(s) == IF s # <<>> /\ Head(s).ch \in Whitespace THEN TrimStart(Tail(s)) ELSE s

RECURSIVE TrimEnd(_)
TrimEnd(s) ==
    IF s # <<>> /\ s[Len(s)].ch \in Whitespace THEN TrimEnd(SubSeq(s, 1, Len(s) - 1))
    ELSE s

Trim(s) == TrimEnd(TrimStart(s))

\* s.split(/\s+/) for a trimmed s: its words in order ([""] for the empty string)
RECURSIVE SplitWords(_)
SplitWords(s) ==
    LET i == IndexOfRun(s, Whitespace, 1)
    IN IF i > Len(s) THEN <<s>>
       ELSE <<SubSeq(s, 1, i - 1)>> \o SplitWords(TrimStart(SubSeq(s, i, Len(s))))

\* words.join(' ')
RECURSIVE Join(_)
Join(words) ==
    IF words = <<>> THEN <<>>
    ELSE IF Len(words) = 1 THEN words[1]
    ELSE words[1] \o Str(" ", 1) \o Join(Tail(words))

\* Array.prototype.slice(0, k)
Take(seq, k) == SubSeq(seq, 1, IF Len(seq) < k THEN Len(seq) ELSE k)

\* a constant piece of text kept whole (its length is never measured)
Text(t) == <<[ch |-> t, n |-> 1]>>

----------------------------------------------------------------------------
(* Maps *)

MapHas(m, k) == k \in DOMAIN m
MapSet(m, k, v) == [x \in (DOMAIN m) \cup {k} |-> IF x = k THEN v ELSE m[x]]
MapDelete(m, k) == [x \in (DOMAIN m) \ {k} |-> m[x]]
EmptyMap == [x \in {} |-> 0]

----------------------------------------------------------------------------
(* GeminiAdapter *)

IntentTags ==
    {"planning", "feedback", "debate", "smalltalk", "joking", "venting", "support",
     "negotiation", "instruction"}

\* what an async call came to: a value it returned, or an exception it threw
Returned(value) == [threw |-> FALSE, value |-> <<value>>]
Thrown == [threw |-> TRUE, value |-> <<>>]

\* what the generation backend did with a prompt: generateContent or response.text()
\* threw ("throws"), the text has no {...} ("no_json"), JSON.parse rejected it
\* ("malformed"), or it parsed to the object `value` ("object")
Response(kind, value) == [kind |-> kind, value |-> value]

\* RollingSchema.parse accepts the object
RollingSchema(v) ==
    /\ StrLen(v.topic_line) >= 1
    /\ Len(v.intent_tags) >= 1 /\ Len(v.intent_tags) <= 3
    /\ \A i \in 1..Len(v.intent_tags) : v.intent_tags[i] \in IntentTags
    /\ v.confidence >= 0 /\ v.confidence <= 100
    /\ Len(v.uncertainty_notes) <= 2
    /\ \A i \in 1..Len(v.uncertainty_notes) : StrLen(v.uncertainty_notes[i]) >= 1

\* DebriefSchema.parse accepts the object
DebriefSchema(v) ==
    /\ Len(v.bullets) >= 3 /\ Len(v.bullets) <= 5
    /\ \A i \in 1..Len(v.bullets) : StrLen(v.bullets[i]) >= 1
    /\ Len(v.suggestions) >= 1 /\ Len(v.suggestions) <= 2
    /\ \A i \in 1..Len(v.suggestions) : StrLen(v.suggestions[i]) >= 1
    /\ Len(v.uncertainty_notes) >= 1 /\ Len(v.uncertainty_notes) <= 2
    /\ \A i \in 1..Len(v.uncertainty_notes) : StrLen(v.uncertainty_notes[i]) >= 1

\* parseJson: the parsed object in a one-element sequence, or <<>> for null;
\* accepted is whether schema.parse accepts the object
parseJson(response, accepted) ==
    IF response.kind = "object" /\ accepted THEN <<response.value>>
    ELSE <<>>

Separators == {".", "!", "?", "\n"}

\* transcript.split(/[.!?\n]/).find((item) => item.trim().length > 0), <<>> for none
RECURSIVE FirstSegment(_)
FirstSegment(s) ==
    LET i == IndexOfRun(s, Separators, 1)
        segment == SubSeq(s, 1, i - 1)
    IN IF TrimNonEmpty(segment) THEN segment
       ELSE IF i >= Len(s) THEN <<>>
       ELSE FirstSegment(SubSeq(s, i + 1, Len(s)))

MaxTopicWords == 12

buildTopicLine(transcript) ==
    LET line == FirstSegment(transcript)
        found == IF TrimNonEmpty(line) THEN line
                 ELSE Text("Conversation") \o Str(" ", 1) \o Text("in") \o Str(" ", 1)
                      \o Text("progress")
    IN Join(Take(SplitWords(Trim(found)), MaxTopicWords))

\* the tags of heuristicRolling with the words that select each, in the order tested
HeuristicTags ==
    << [tag |-> "planning",
        words |-> {Lit(<<"p","l","a","n">>), Lit(<<"s","c","h","e","d","u","l","e">>),
                   Lit(<<"n","e","x","t"," ","s","t","e","p">>)}],
       [tag |-> "feedback",
        words |-> {Lit(<<"f","e","e","d","b","a","c","k">>), Lit(<<"r","e","v","i","e","w">>),
                   Lit(<<"o","p","i","n","i","o","n">>)}],
       [tag |-> "debate",
        words |-> {Lit(<<"d","e","b","a","t","e">>), Lit(<<"d","i","s","a","g","r","e","e">>),
                   Lit(<<"a","r","g","u","e">>)}],
       [tag |-> "joking",
        words |-> {Lit(<<"j","o","k","e">>), Lit(<<"l","o","l">>), Lit(<<"h","a","h","a">>)}],
       [tag |-> "venting",
        words |-> {Lit(<<"v","e","n","t">>),
                   Lit(<<"f","r","u","s","t","r","a","t","e","d">>),
                   Lit(<<"u","p","s","e","t">>)}],
       [tag |-> "support",
        words |-> {Lit(<<"s","u","p","p","o","r","t">>), Lit(<<"h","e","l","p">>),
                   Lit(<<"a","s","s","i","s","t">>)}],
       [tag |-> "negotiation",
        words |-> {Lit(<<"n","e","g","o","t","i","a","t","e">>), Lit(<<"d","e","a","l">>),
                   Lit(<<"t","r","a","d","e">>)}],
       [tag |-> "instruction",
        words |-> {Lit(<<"h","o","w"," ","t","o">>),
                   Lit(<<"i","n","s","t","r","u","c","t","i","o","n">>),
                   Lit(<<"t","e","a","c","h">>)}] >>

heuristicRolling(transcript) ==
    LET lower == ToLowerCase(transcript)
        matched == SelectSeq(HeuristicTags,
                             LAMBDA h : \E w \in h.words : Includes(lower, w))
        tags == IF matched = <<>> THEN <<"smalltalk">>
                ELSE [i \in 1..Len(matched) |-> matched[i].tag]
        \* Number(Math.min(1, 0.3 + length / 1200).toFixed(2)), in hundredths
        raw == (360 + StrLen(transcript) + 6) \div 12
    IN [topic_line |-> buildTopicLine(transcript),
        intent_tags |-> Take(tags, 3),
        confidence |-> IF raw > 100 THEN 100 ELSE raw,
        uncertainty_notes |-> IF StrLen(transcript) < 200
                              THEN <<Text("Limited context.")>> ELSE <<>>]

heuristicDebrief(transcript) ==
    [bullets |-> << Text("Main topic: ") \o buildTopicLine(transcript),
                    Text("Several points were shared across the conversation."),
                    Text("Intent signals appeared throughout the exchange.") >>,
     suggestions |-> <<Text("Consider confirming next steps and clarifying open questions.")>>,
     uncertainty_notes |-> <<Text("Summary may be incomplete due to limited context.")>>]

normalizeRolling(summary) ==
    [summary EXCEPT !.topic_line = Join(Take(SplitWords(@), MaxTopicWords)),
                    !.intent_tags = Take(@, 3)]

\* rollingSummary that lets the backend's exception through
rollingSummaryUncaught(client, response, transcript) ==
    IF ~client THEN Returned(heuristicRolling(transcript))
    ELSE IF response.kind = "throws" THEN Thrown
    ELSE LET parsed == parseJson(response, RollingSchema(response.value))
         IN Returned(normalizeRolling(IF parsed # <<>> THEN parsed[1]
                                      ELSE heuristicRolling(transcript)))

\* GeminiAdapter.rollingSummary: client is whether an API key was configured
rollingSummary(client, response, transcript) ==
    IF ~client THEN Returned(heuristicRolling(transcript))
    ELSE IF response.kind = "throws" THEN Returned(heuristicRolling(transcript))
    ELSE LET parsed == parseJson(response, RollingSchema(response.value))
         IN Returned(normalizeRolling(IF parsed # <<>> THEN parsed[1]
                                      ELSE heuristicRolling(transcript)))

\* GeminiAdapter.debrief
debrief(client, response, transcript) ==
    IF ~client THEN Returned(heuristicDebrief(transcript))
    ELSE IF response.kind = "throws" THEN Returned(heuristicDebrief(transcript))
    ELSE LET parsed == parseJson(response, DebriefSchema(response.value))
         IN Returned(IF parsed # <<>> THEN parsed[1] ELSE heuristicDebrief(transcript))

----------------------------------------------------------------------------
(* SessionStore *)

\* `a ?? b`: b only when a is undefined
Coalesce(a, b) == IF a # Undefined THEN a ELSE b

NoChunk == [text |-> <<>>, speaker |-> Undefined, t0_ms |-> NoNumber,
            t1_ms |-> NoNumber, receivedAt |-> 0]

\* a store that stamps a new record with the time of its creation
firstSummaryAtCreation(now) == now

\* startSession: lastSummaryAt of a new record
firstSummaryAt(now) == 0

\* the record startSession constructs for a new identifier
NewSession(sessionId, params, now) ==
    [sessionId |-> sessionId,
     userId |-> params.userId,
     language |-> params.language,
     saveMode |-> params.saveMode,
     sttMode |-> params.sttMode,
     buffer |-> <<>>,
     chunks |-> <<>>,
     overlays |-> <<>>,
     visionUpdates |-> <<>>,
     debrief |-> <<>>,
     display |-> [updatedAt |-> now, intent_tags |-> <<"smalltalk">>,
                  confidence |-> 10, transcript_tail |-> <<>>, env |-> <<>>],
     createdAt |-> now,
     lastSummaryAt |-> firstSummaryAt(now),
     lastSummaryChars |-> 0,
     lastVisionAt |-> 0,
     stream |-> 0,
     overlayLatenciesMs |-> <<>>]

\* MergeStart that rebuilds the record instead of merging into it
MergeStartReset(existing, params) ==
    NewSession(existing.sessionId,
               [userId |-> Coalesce(params.userId, existing.userId),
                language |-> Coalesce(params.language, existing.language),
                saveMode |-> Coalesce(params.saveMode, existing.saveMode),
                sttMode |-> Coalesce(params.sttMode, existing.sttMode)],
               existing.createdAt)

\* the merge startSession applies to an existing record
MergeStart(existing, params) ==
    [existing EXCEPT !.userId = Coalesce(params.userId, existing.userId),
                     !.language = Coalesce(params.language, existing.language),
                     !.saveMode = Coalesce(params.saveMode, existing.saveMode),
                     !.sttMode = Coalesce(params.sttMode, existing.sttMode)]

\* Get that answers with the record registered first, whatever the identifier
GetAny(sessionId) ==
    IF DOMAIN sessions = {} THEN 0
    ELSE sessions[CHOOSE k \in DOMAIN sessions : \A j \in DOMAIN sessions : sessions[k] <= sessions[j]]

\* SessionStore.get
Get(sessionId) == IF MapHas(sessions, sessionId) THEN sessions[sessionId] ELSE 0

\* SessionStore.remove: stop the stream of the registered record, delete the key
RemoveStreams(sessionId) ==
    IF MapHas(sessions, sessionId) /\ heap[sessions[sessionId]].stream # 0
    THEN [streams EXCEPT ![heap[sessions[sessionId]].stream].state = "stopped"]
    ELSE streams

\* RemoveSessions that leaves the key in the Map
RemoveSessionsKept(sessionId) == sessions

\* SessionStore.remove: this.sessions.delete(sessionId)
RemoveSessions(sessionId) == MapDelete(sessions, sessionId)

----------------------------------------------------------------------------
(* Hub: subscriptions and delivery *)

\* send(ws, message): only on an open socket
Send(ws) == IF ws # Undefined /\ connOpen[ws] THEN {ws} ELSE {}

\* a hub that writes to every open socket
sendToAll(sessionId) == {ws \in DOMAIN connOpen : connOpen[ws]}

\* sendToSession: the open sockets among the subscribers of sessionId
sendToSession(sessionId) ==
    IF MapHas(sessionClients, sessionId)
    THEN {ws \in sessionClients[sessionId] : connOpen[ws]}
    ELSE {}

\* hub.emitError for a message of the processor (which always carries a sessionId)
emitError(sessionId, ws) == sendToSession(sessionId)

\* attachClient
AttachClientSessions(ws, sessionId) ==
    MapSet(clientSessions, ws,
           (IF MapHas(clientSessions, ws) THEN clientSessions[ws] ELSE {}) \cup {sessionId})

AttachSessionClients(ws, sessionId) ==
    MapSet(sessionClients, sessionId,
           (IF MapHas(sessionClients, sessionId) THEN sessionClients[sessionId] ELSE {}) \cup {ws})

\* a detachClient that leaves an emptied subscriber set in the map
DetachKeepEmpty(ws) ==
    LET mine == IF MapHas(clientSessions, ws) THEN clientSessions[ws] ELSE {}
    IN [sid \in DOMAIN sessionClients |->
            IF sid \in mine THEN sessionClients[sid] \ {ws} ELSE sessionClients[sid]]

\* detachClient: the subscriber map after ws leaves every session it is recorded under
DetachSessionClients(ws) ==
    LET mine == IF MapHas(clientSessions, ws) THEN clientSessions[ws] ELSE {}
        left(sid) == sessionClients[sid] \ {ws}
        emptied == {sid \in (DOMAIN sessionClients) \cap mine : left(sid) = {}}
    IN [sid \in (DOMAIN sessionClients) \ emptied |->
            IF sid \in mine THEN left(sid) ELSE sessionClients[sid]]

\* an outbound event: `to` is the set of sockets it was written to, `cause` the
\* handler invocation that produced it, `obj` the session object it is about
Event(type, sessionId, code, cause, obj, ts, tags, to) ==
    [type |-> type, sessionId |-> sessionId, code |-> code, cause |-> cause,
     obj |-> obj, ts |-> ts, tags |-> tags, to |-> to]

\* a call to a collaborator, made at time `at`
Call(op, sessionId, obj, task, arg) ==
    [op |-> op, sessionId |-> sessionId, obj |-> obj, task |-> task, arg |-> arg,
     at |-> clock]

Task(id, kind, pc, ws, sessionId, obj, now, chunk, explicit) ==
    [id |-> id, kind |-> kind, pc |-> pc, ws |-> ws, sessionId |-> sessionId,
     obj |-> obj, now |-> now, chunk |-> chunk, explicit |-> explicit]

\* an inbound message: its type, the socket it came on (Undefined: the Deepgram
\* callback), the session it is about (for start_session: the identifier and record
\* startSession returned; else the identifier it names and the record store.get
\* found, 0 for none), and the optional fields it carried (start_session only)
Msg(type, ws, sessionId, obj, fields) ==
    [type |-> type, ws |-> ws, sessionId |-> sessionId, obj |-> obj, fields |-> fields]

StartFields(sessionId, userId, language, saveMode, sttMode) ==
    [sessionId |-> sessionId, userId |-> userId, language |-> language,
     saveMode |-> saveMode, sttMode |-> sttMode]

NoFields == StartFields(Undefined, Undefined, Undefined, Undefined, Undefined)

nmsgs == Len(inbox)

Step(task, kind, obj, fields) ==
    [task |-> task, kind |-> kind, obj |-> obj, fields |-> fields]

----------------------------------------------------------------------------
(* SessionProcessor: the pure parts *)

\* the line handleTranscript renders for a fragment
Line(chunk) ==
    (IF chunk.speaker # Undefined
     THEN Str("[", 1) \o Str(chunk.speaker, 1) \o Str("]", 1) \o Str(" ", 1)
     ELSE <<>>) \o chunk.text

\* pushTail that keeps blank lines
pushTailUnfiltered(tail, line) ==
    LET next == Append(tail, line)
    IN IF Len(next) > TailSize THEN SubSeq(next, Len(next) - TailSize + 1, Len(next))
       ELSE next

pushTail(tail, line) ==
    LET next == SelectSeq(Append(tail, line), TrimNonEmpty)
    IN IF Len(next) > TailSize THEN SubSeq(next, Len(next) - TailSize + 1, Len(next))
       ELSE next

\* ThrottleSkip that skips when either delta is small
ThrottleSkipEither(timeDelta, charDelta) ==
    timeDelta < summaryIntervalMs \/ charDelta < summaryChars

\* HasInstruction that looks for a summary tagged instruction and nothing else
HasInstructionOnly(intent_tags) == intent_tags = <<"instruction">>

\* summary.intent_tags.includes('instruction')
HasInstruction(intent_tags) ==
    \E i \in 1..Len(intent_tags) : intent_tags[i] = "instruction"

\* the early return of handleTranscript: no summary for this fragment
ThrottleSkip(timeDelta, charDelta) ==
    timeDelta < summaryIntervalMs /\ charDelta < summaryChars

\* clamp that returns the value as it is
clampNone(value, min, max) == value

clamp(value, min, max) ==
    LET lower == IF value > min THEN value ELSE min
    IN IF lower < max THEN lower ELSE max

\* NotFound with its error event left out
NotFoundSilent(id, handler, sessionId, ws) ==
    /\ step' = Step(id, handler, 0, {})
    /\ UNCHANGED <<emitted, heap, tasks, calls>>

\* the branch of handleTranscript, handleVisionFrame and endSession for a sessionId
\* that store.get does not find: one error through the emitter, then return
NotFound(id, handler, sessionId, ws) ==
    /\ emitted' = Append(emitted, Event("error", sessionId, "session_not_found", id, 0,
                                        NoNumber, <<>>, emitError(sessionId, ws)))
    /\ step' = Step(id, handler, 0, {})
    /\ UNCHANGED <<heap, tasks, calls>>

\* onStart's condition for the user-preference upsert
ShouldUpsert(session, mongo) ==
    session.saveMode = "mongo" /\ session.userId # Undefined /\ mongo

\* PersistSkipped that ignores the mode
PersistSkippedNever(session) == FALSE

\* persistSession's first line: nothing to do unless the mode is mongo
PersistSkipped(session) == session.saveMode # "mongo"

\* a handler that leaves lastVisionAt alone until the summary has returned
markVisionLater(session, now) == session

\* handleVisionFrame: session.lastVisionAt = now, before the call
markVision(session, now) == [session EXCEPT !.lastVisionAt = now]

\* a gate that lets every frame through
VisionSkipNever(now, lastVisionAt) == FALSE

\* handleVisionFrame's gate
VisionSkip(now, lastVisionAt) == now - lastVisionAt < visionIntervalMs

\* the hub's defaults for the fields of start_session it passes to startSession
StartSaveMode(saveMode) == Coalesce(saveMode, "none")
StartSttMode(sttMode) == Coalesce(sttMode, sttDefault)

----------------------------------------------------------------------------
(* Initial state: the server has booted, nobody is connected to a session *)

\* values of MAX_ROLLING_CHARS and MAX_DEBRIEF_CHARS that envSchema accepts
\* (z.coerce.number(): any number), the defaults among them
RollingCaps == {0 - 3, 0, 4, maxRollingChars}
DebriefCaps == {0 - 3, 0, 4, maxDebriefChars}

\* the process environment with the default caps
Env(mongo, deepgram, gemini) ==
    [mongo |-> mongo, deepgram |-> deepgram, gemini |-> gemini,
     maxRollingChars |-> maxRollingChars, maxDebriefChars |-> maxDebriefChars]

DefaultCaps ==
    env.maxRollingChars = maxRollingChars /\ env.maxDebriefChars = maxDebriefChars

\* VisionService.latest before the first snapshot
NoSnapshot == [env_label |-> "", notes |-> <<>>]

\* new VisionService(config) for a config in gemini mode with an API key: the
\* private fields as the class initialises them
NewVisionService ==
    [mode |-> "gemini", geminiApiKey |-> TRUE, latest |-> NoSnapshot, running |-> FALSE,
     timer |-> 0, frameSource |-> 0, gemini |-> FALSE, mockIndex |-> 0]

Init ==
    /\ clock = StartClock
    /\ sessions = EmptyMap
    /\ heap = <<>>
    /\ tasks = {}
    /\ sessionClients = EmptyMap
    /\ clientSessions = EmptyMap
    /\ connOpen = [c \in Conns |-> TRUE]
    /\ streams = <<>>
    /\ emitted = <<>>
    /\ calls = <<>>
    /\ inbox = <<>>
    /\ genCount = 0
    /\ env \in [mongo : BOOLEAN, deepgram : BOOLEAN, gemini : BOOLEAN,
                maxRollingChars : RollingCaps, maxDebriefChars : DebriefCaps]
    /\ step = Step(0, "boot", 0, {})
    /\ vision = NewVisionService
    /\ timers = <<>>
    /\ loops = {}
    /\ vlog = <<>>

----------------------------------------------------------------------------
(* start_session *)

\* Greets that answers every start_session with a greeting
GreetsAlways(explicit) == TRUE

\* `if (!message.sessionId)`: the greeting overlay is for generated identifiers only
Greets(explicit) == ~explicit

\* what the start_session case does after `await processor.onStart(session)`:
\* the greeting overlay for a generated id, then the Deepgram stream
StartTail(heapIn, emittedIn, id, ws, o, explicit, streamOk) ==
    LET session == heapIn[o]
        greeted == IF ~Greets(explicit) THEN emittedIn
                   ELSE Append(emittedIn,
                               Event("overlay_update", session.sessionId, "", id, o,
                                     clock, <<"planning">>, Send(ws)))
    IN IF session.sttMode # "deepgram"
       THEN [heap |-> heapIn, emitted |-> greeted, streams |-> streams]
       ELSE IF ~env.deepgram
       THEN [heap |-> heapIn, streams |-> streams,
             emitted |-> Append(greeted, Event("error", session.sessionId,
                                 "deepgram_unavailable", id, o, NoNumber, <<>>, Send(ws)))]
       ELSE IF session.stream # 0
       THEN [heap |-> heapIn, emitted |-> greeted, streams |-> streams]
       ELSE IF streamOk
       THEN [heap |-> [heapIn EXCEPT ![o].stream = Len(streams) + 1],
             emitted |-> greeted,
             streams |-> Append(streams, [state |-> "active", obj |-> o])]
       ELSE [heap |-> heapIn, streams |-> streams,
             emitted |-> Append(greeted, Event("error", session.sessionId,
                                 "deepgram_start_failed", id, o, NoNumber, <<>>, Send(ws)))]

\* a start_session message arrives on ws; sessionId, userId, language, saveMode and
\* sttMode are its fields (Undefined: omitted)
RecvStart(ws, sessionId, userId, language, saveMode, sttMode, streamOk) ==
    LET id == nmsgs + 1
        explicit == sessionId # Undefined
        sid == IF explicit THEN sessionId ELSE GenIds[genCount + 1]
        params == [userId |-> userId, language |-> language,
                   saveMode |-> StartSaveMode(saveMode), sttMode |-> StartSttMode(sttMode)]
        existing == MapHas(sessions, sid)
        o == IF existing THEN sessions[sid] ELSE Len(heap) + 1
        heap1 == IF existing THEN [heap EXCEPT ![o] = MergeStart(@, params)]
                 ELSE Append(heap, NewSession(sid, params, clock))
        tail == StartTail(heap1, emitted, id, ws, o, explicit, streamOk)
    IN /\ connOpen[ws]
       /\ explicit \/ genCount < Len(GenIds)
       /\ inbox' = Append(inbox, Msg("start_session", ws, sid, o,
                                 StartFields(sessionId, userId, language, saveMode, sttMode)))
       /\ genCount' = IF explicit THEN genCount ELSE genCount + 1
       /\ sessions' = MapSet(sessions, sid, o)
       /\ clientSessions' = AttachClientSessions(ws, sid)
       /\ sessionClients' = AttachSessionClients(ws, sid)
       /\ step' = Step(id, "start_session", o, {"userId", "language", "saveMode", "sttMode"})
       /\ IF ShouldUpsert(heap1[o], env.mongo)
          THEN /\ calls' = Append(calls, Call("upsertUserPrefs", sid, o, id, <<>>))
               /\ tasks' = tasks \cup {Task(id, "start", "onStart", ws, sid, o, clock,
                                            NoChunk, explicit)}
               /\ heap' = heap1
               /\ UNCHANGED <<emitted, streams>>
          ELSE /\ heap' = tail.heap
               /\ emitted' = tail.emitted
               /\ streams' = tail.streams
               /\ UNCHANGED <<calls, tasks>>
       /\ UNCHANGED <<clock, connOpen, env, vision, timers, loops, vlog>>

\* mongo.upsertUserPrefs returns (or throws: onStart catches and only logs)
ResumeOnStart(t, streamOk) ==
    LET tail == StartTail(heap, emitted, t.id, t.ws, t.obj, t.explicit, streamOk)
    IN /\ t \in tasks /\ t.pc = "onStart"
       /\ tasks' = tasks \ {t}
       /\ heap' = tail.heap
       /\ emitted' = tail.emitted
       /\ streams' = tail.streams
       /\ step' = Step(t.id, "onStart.return", t.obj, {"sttMode", "stream"})
       /\ UNCHANGED <<clock, sessions, sessionClients, clientSessions, connOpen, calls,
                      inbox, genCount, env, vision, timers, loops, vlog>>

----------------------------------------------------------------------------
(* transcript_chunk *)

\* processor.handleTranscript up to its first await
handleTranscript(ws, sessionId, text, speaker, t0_ms, t1_ms) ==
    LET id == nmsgs + 1
        o == Get(sessionId)
    IN /\ inbox' = Append(inbox, Msg("transcript_chunk", ws, sessionId, o, NoFields))
       /\ IF o = 0
          THEN NotFound(id, "handleTranscript", sessionId, ws)
          ELSE LET session == heap[o]
                   chunk == [text |-> text, speaker |-> speaker, t0_ms |-> t0_ms,
                             t1_ms |-> t1_ms, receivedAt |-> clock]
                   line == Line(chunk)
                   buffer == session.buffer \o line \o Str("\n", 1)
                   now == clock
                   charDelta == StrLen(buffer) - session.lastSummaryChars
                   timeDelta == now - session.lastSummaryAt
               IN /\ heap' = [heap EXCEPT
                                ![o].chunks = Append(@, chunk),
                                ![o].buffer = buffer,
                                ![o].display.transcript_tail = pushTail(@, line),
                                ![o].display.updatedAt = clock]
                  /\ step' = Step(id, "handleTranscript", o,
                                  {"chunks", "buffer", "display", "lastSummaryAt",
                                   "lastSummaryChars"})
                  /\ emitted' = emitted
                  /\ IF ThrottleSkip(timeDelta, charDelta)
                     THEN UNCHANGED <<tasks, calls>>
                     ELSE /\ calls' = Append(calls,
                                 Call("rollingSummary", sessionId, o, id,
                                      Slice(buffer, 0 - env.maxRollingChars)))
                          /\ tasks' = tasks \cup {Task(id, "transcript", "rollingSummary",
                                                       ws, sessionId, o, now, chunk, TRUE)}
       /\ UNCHANGED <<clock, sessions, sessionClients, clientSessions, connOpen, streams,
                      genCount, env, vision, timers, loops, vlog>>

\* a transcript_chunk message arrives on ws
RecvTranscript(ws, sessionId, text, speaker, t0_ms, t1_ms) ==
    /\ connOpen[ws]
    /\ handleTranscript(ws, sessionId, text, speaker, t0_ms, t1_ms)

\* an active Deepgram stream delivers a transcript to the callback of start_session
StreamTranscript(h, text, t0_ms, t1_ms) ==
    /\ h \in 1..Len(streams)
    /\ streams[h].state = "active"
    /\ TrimNonEmpty(text)
    /\ handleTranscript(Undefined, heap[streams[h].obj].sessionId, text, Undefined,
                        t0_ms, t1_ms)

\* handleTranscript from the return of gemini.rollingSummary on, working on the
\* session object o
afterRolling(t, summary, o) ==
    LET session == heap[o]
        now == t.now
        overlay == [type |-> "overlay_update", sessionId |-> t.sessionId,
                    topic_line |-> summary.topic_line,
                    intent_tags |-> summary.intent_tags,
                    uncertainty_notes |-> summary.uncertainty_notes,
                    confidence |-> clamp(summary.confidence, 0, 100),
                    last_updated_ms |-> now]
        overlayEvent == Event("overlay_update", t.sessionId, "", t.id, o, now,
                              summary.intent_tags, sendToSession(t.sessionId))
        toolEvent == Event("tool_event", t.sessionId, "practice_prompt", t.id, o, now,
                           <<>>, sendToSession(t.sessionId))
    IN /\ t \in tasks /\ t.pc = "rollingSummary"
       /\ tasks' = tasks \ {t}
       /\ heap' = [heap EXCEPT
                     ![o].overlays = Append(@, overlay),
                     ![o].lastSummaryAt = now,
                     ![o].lastSummaryChars = StrLen(session.buffer),
                     ![o].display.intent_tags = overlay.intent_tags,
                     ![o].display.confidence = overlay.confidence,
                     ![o].display.updatedAt = now,
                     ![o].overlayLatenciesMs =
                         IF t.chunk.receivedAt # 0 THEN Append(@, now - t.chunk.receivedAt)
                         ELSE @]
       /\ emitted' = IF HasInstruction(summary.intent_tags)
                     THEN emitted \o <<overlayEvent, toolEvent>>
                     ELSE Append(emitted, overlayEvent)
       /\ step' = Step(t.id, "rollingSummary.return", o,
                       {"overlays", "buffer", "lastSummaryAt", "lastSummaryChars", "display",
                        "overlayLatenciesMs"})
       /\ UNCHANGED <<clock, sessions, sessionClients, clientSessions, connOpen, streams,
                      calls, inbox, genCount, env, vision, timers, loops, vlog>>

\* a handler that fetches the session from the store again once the call has
\* returned and reads a field of what it got
ResumeRollingRefetch(t, summary) ==
    IF Get(t.sessionId) # 0 THEN afterRolling(t, summary, Get(t.sessionId))
    ELSE /\ t \in tasks /\ t.pc = "rollingSummary"
         /\ tasks' = tasks \ {t}
         /\ step' = Step(t.id, "rollingSummary.throw", t.obj, {})
         /\ UNCHANGED <<clock, sessions, heap, sessionClients, clientSessions, connOpen,
                        streams, emitted, calls, inbox, genCount, env, vision, timers, loops, vlog>>

\* gemini.rollingSummary returns `summary`: the handler goes on with the `session`
\* it read before the call
ResumeRolling(t, summary) == afterRolling(t, summary, t.obj)

----------------------------------------------------------------------------
(* vision_frame *)

\* a vision_frame message arrives on ws: processor.handleVisionFrame up to its await
RecvVision(ws, sessionId) ==
    LET id == nmsgs + 1
        o == Get(sessionId)
        now == clock
    IN /\ connOpen[ws]
       /\ inbox' = Append(inbox, Msg("vision_frame", ws, sessionId, o, NoFields))
       /\ IF o = 0
          THEN NotFound(id, "handleVisionFrame", sessionId, ws)
          ELSE /\ step' = Step(id, "handleVisionFrame", o, {"lastVisionAt"})
               /\ emitted' = emitted
               /\ IF VisionSkip(now, heap[o].lastVisionAt)
                  THEN UNCHANGED <<heap, tasks, calls>>
                  ELSE /\ heap' = [heap EXCEPT ![o] = markVision(@, now)]
                       /\ calls' = Append(calls, Call("visionSummary", sessionId, o, id, <<>>))
                       /\ tasks' = tasks \cup {Task(id, "vision", "visionSummary", ws,
                                                    sessionId, o, now, NoChunk, TRUE)}
       /\ UNCHANGED <<clock, sessions, sessionClients, clientSessions, connOpen, streams,
                      genCount, env, vision, timers, loops, vlog>>

\* gemini.visionSummary returns `summary` (ok) or throws: handleVisionFrame has no
\* handler for the exception, so the invocation ends there
ResumeVision(t, ok, summary) ==
    LET now == t.now
        update == [type |-> "vision_update", sessionId |-> t.sessionId,
                   confidence |-> clamp(summary.confidence, 0, 100),
                   last_updated_ms |-> now]
    IN /\ t \in tasks /\ t.pc = "visionSummary"
       /\ tasks' = tasks \ {t}
       /\ IF ok
          THEN /\ heap' = [heap EXCEPT
                             ![t.obj].visionUpdates = Append(@, update),
                             ![t.obj].display.env = <<update.confidence>>,
                             ![t.obj].display.updatedAt = now]
               /\ emitted' = Append(emitted, Event("vision_update", t.sessionId, "", t.id,
                                                   t.obj, now, <<>>,
                                                   sendToSession(t.sessionId)))
               /\ step' = Step(t.id, "visionSummary.return", t.obj,
                               {"visionUpdates", "display"})
          ELSE /\ step' = Step(t.id, "visionSummary.throw", t.obj, {})
               /\ UNCHANGED <<heap, emitted>>
       /\ UNCHANGED <<clock, sessions, sessionClients, clientSessions, connOpen, streams,
                      calls, inbox, genCount, env, vision, timers, loops, vlog>>

----------------------------------------------------------------------------
(* end_session *)

\* an end_session message arrives on ws: processor.endSession up to its first await
RecvEnd(ws, sessionId) ==
    LET id == nmsgs + 1
        o == Get(sessionId)
    IN /\ connOpen[ws]
       /\ inbox' = Append(inbox, Msg("end_session", ws, sessionId, o, NoFields))
       /\ IF o = 0
          THEN NotFound(id, "endSession", sessionId, ws)
          ELSE /\ heap' = heap
               /\ calls' = Append(calls, Call("debrief", sessionId, o, id,
                                              Slice(heap[o].buffer, 0 - env.maxDebriefChars)))
               /\ tasks' = tasks \cup {Task(id, "end", "debrief", ws, sessionId, o, clock,
                                            NoChunk, TRUE)}
               /\ step' = Step(id, "endSession", o, {"buffer", "language"})
               /\ emitted' = emitted
       /\ UNCHANGED <<clock, sessions, sessionClients, clientSessions, connOpen,
                      streams, genCount, env, vision, timers, loops, vlog>>

\* chunk.t0_ms ?? 0 and chunk.t1_ms ?? chunk.t0_ms ?? 0
WithTimes(chunk) ==
    [t0 |-> IF chunk.t0_ms # NoNumber THEN chunk.t0_ms ELSE 0,
     t1 |-> IF chunk.t1_ms # NoNumber THEN chunk.t1_ms
            ELSE IF chunk.t0_ms # NoNumber THEN chunk.t0_ms ELSE 0]

\* Array.prototype.sort((a, b) => a.t0 - b.t0), which is stable
RECURSIVE SortByT0(_)
SortByT0(seq) ==
    IF seq = <<>> THEN <<>>
    ELSE LET x == seq[Len(seq)]
             sorted == SortByT0(SubSeq(seq, 1, Len(seq) - 1))
             k == Cardinality({i \in 1..Len(sorted) : sorted[i].t0 <= x.t0})
         IN SubSeq(sorted, 1, k) \o <<x>> \o SubSeq(sorted, k + 1, Len(sorted))

\* Math.max(0, Math.round(ms / 1000))
RoundSeconds(ms) == IF ms <= 0 THEN 0 ELSE (ms + 500) \div 1000

estimateDuration(session, now) ==
    IF Len(session.chunks) = 0 THEN 0
    ELSE LET withTimes == SortByT0([i \in 1..Len(session.chunks) |->
                                       WithTimes(session.chunks[i])])
             start == withTimes[1].t0
             end == withTimes[Len(withTimes)].t1
         IN IF end <= start THEN RoundSeconds(now - session.createdAt)
            ELSE RoundSeconds(end - start)

\* sendMetrics up to its await: the aggregated event handed to snowflake.send
MetricsCall(t) ==
    Call("snowflake.send", t.sessionId, t.obj, t.id,
         <<[duration_s |-> estimateDuration(heap[t.obj], clock)]>>)

FieldsOfMetrics == {"chunks", "overlays", "overlayLatenciesMs", "language", "createdAt"}

\* gemini.debrief returns: the debrief is stored and emitted, then persistSession runs
\* up to its await (or to its end), and in the latter case sendMetrics up to its await
ResumeDebrief(t, debriefSummary) ==
    LET record == [type |-> "debrief", sessionId |-> t.sessionId, by |-> t.id,
                   bullets |-> debriefSummary.bullets,
                   suggestions |-> debriefSummary.suggestions,
                   uncertainty_notes |-> debriefSummary.uncertainty_notes]
        session == [heap[t.obj] EXCEPT !.debrief = <<record>>]
        debriefEvent == Event("debrief", t.sessionId, "", t.id, t.obj, NoNumber, <<>>,
                              sendToSession(t.sessionId))
        unavailable == Event("error", session.sessionId, "mongo_unavailable", t.id, t.obj,
                             NoNumber, <<>>, emitError(session.sessionId, t.ws))
    IN /\ t \in tasks /\ t.pc = "debrief"
       /\ heap' = [heap EXCEPT ![t.obj] = session]
       /\ IF PersistSkipped(session)
          THEN /\ emitted' = Append(emitted, debriefEvent)
               /\ calls' = Append(calls, MetricsCall(t))
               /\ tasks' = (tasks \ {t}) \cup {[t EXCEPT !.pc = "metrics"]}
               /\ step' = Step(t.id, "debrief.return", t.obj,
                               {"debrief", "saveMode"} \cup FieldsOfMetrics)
          ELSE IF ~env.mongo
          THEN /\ emitted' = emitted \o <<debriefEvent, unavailable>>
               /\ calls' = Append(calls, MetricsCall(t))
               /\ tasks' = (tasks \ {t}) \cup {[t EXCEPT !.pc = "metrics"]}
               /\ step' = Step(t.id, "debrief.return", t.obj,
                               {"debrief", "saveMode"} \cup FieldsOfMetrics)
          ELSE /\ emitted' = Append(emitted, debriefEvent)
               /\ calls' = Append(calls, Call("saveSession", session.sessionId, t.obj, t.id,
                                              <<>>))
               /\ tasks' = (tasks \ {t}) \cup {[t EXCEPT !.pc = "persist"]}
               /\ step' = Step(t.id, "debrief.return", t.obj,
                               {"debrief", "saveMode", "userId", "language", "chunks",
                                "overlays", "visionUpdates", "createdAt"})
       /\ UNCHANGED <<clock, sessions, sessionClients, clientSessions, connOpen, streams,
                      inbox, genCount, env, vision, timers, loops, vlog>>

\* ResumePersist that only logs a failed save
ResumePersistSilent(t, ok) ==
    /\ t \in tasks /\ t.pc = "persist"
    /\ calls' = Append(calls, MetricsCall(t))
    /\ tasks' = (tasks \ {t}) \cup {[t EXCEPT !.pc = "metrics"]}
    /\ step' = Step(t.id, IF ok THEN "saveSession.return" ELSE "saveSession.throw", t.obj,
                    FieldsOfMetrics)
    /\ UNCHANGED <<clock, sessions, heap, sessionClients, clientSessions, connOpen, streams,
                   emitted, inbox, genCount, env, vision, timers, loops, vlog>>

\* mongo.saveSession returns (ok) or throws; then sendMetrics runs up to its await
ResumePersist(t, ok) ==
    /\ t \in tasks /\ t.pc = "persist"
    /\ emitted' = IF ok THEN emitted
                  ELSE Append(emitted, Event("error", heap[t.obj].sessionId,
                                             "mongo_write_failed", t.id, t.obj, NoNumber,
                                             <<>>, emitError(heap[t.obj].sessionId, t.ws)))
    /\ calls' = Append(calls, MetricsCall(t))
    /\ tasks' = (tasks \ {t}) \cup {[t EXCEPT !.pc = "metrics"]}
    /\ step' = Step(t.id, IF ok THEN "saveSession.return" ELSE "saveSession.throw", t.obj,
                    FieldsOfMetrics)
    /\ UNCHANGED <<clock, sessions, heap, sessionClients, clientSessions, connOpen, streams,
                   inbox, genCount, env, vision, timers, loops, vlog>>

\* snowflake.send returns (ok) or throws; then store.remove(sessionId)
ResumeMetrics(t, ok) ==
    /\ t \in tasks /\ t.pc = "metrics"
    /\ emitted' = IF ok THEN emitted
                  ELSE Append(emitted, Event("error", heap[t.obj].sessionId,
                                             "analytics_failed", t.id, t.obj, NoNumber,
                                             <<>>, emitError(heap[t.obj].sessionId, t.ws)))
    /\ streams' = RemoveStreams(t.sessionId)
    /\ sessions' = RemoveSessions(t.sessionId)
    /\ tasks' = tasks \ {t}
    /\ step' = Step(t.id, IF ok THEN "send.return" ELSE "send.throw", Get(t.sessionId),
                    {"stream"})
    /\ UNCHANGED <<clock, heap, sessionClients, clientSessions, connOpen, calls, inbox,
                   genCount, env, vision, timers, loops, vlog>>

\* snowflake.send returns (ok) or throws, and the stop() of the session's stream
\* handle throws inside store.remove: remove has no handler for it, the record is not
\* deleted and the exception leaves endSession.  stopped: whether the handle was
\* closed all the same.
ResumeMetricsStopThrows(t, ok, stopped) ==
    /\ t \in tasks /\ t.pc = "metrics"
    /\ MapHas(sessions, t.sessionId)
    /\ heap[sessions[t.sessionId]].stream # 0
    /\ emitted' = IF ok THEN emitted
                  ELSE Append(emitted, Event("error", heap[t.obj].sessionId,
                                             "analytics_failed", t.id, t.obj, NoNumber,
                                             <<>>, emitError(heap[t.obj].sessionId, t.ws)))
    /\ streams' = IF stopped THEN RemoveStreams(t.sessionId) ELSE streams
    /\ tasks' = tasks \ {t}
    /\ step' = Step(t.id, "remove.throw", Get(t.sessionId), {"stream"})
    /\ UNCHANGED <<clock, sessions, heap, sessionClients, clientSessions, connOpen, calls,
                   inbox, genCount, env, vision, timers, loops, vlog>>

----------------------------------------------------------------------------
(* The awaited GeminiAdapter calls, driven by what the backend did *)

\* the transcript handed to the gateway by invocation t
TranscriptOf(t) ==
    calls[CHOOSE i \in 1..Len(calls) :
              calls[i].task = t.id /\ calls[i].op \in {"rollingSummary", "debrief"}].arg

\* an exception leaves the handler: the ws message callback has no catch, so the
\* invocation ends where it was
Unwind(t, kind) ==
    /\ tasks' = tasks \ {t}
    /\ step' = Step(t.id, kind, t.obj, {})
    /\ UNCHANGED <<clock, sessions, heap, sessionClients, clientSessions, connOpen,
                   streams, emitted, calls, inbox, genCount, env, vision, timers, loops, vlog>>

\* gemini.rollingSummary settles, the backend having answered with response
GeminiRolling(t, response) ==
    /\ t \in tasks /\ t.pc = "rollingSummary"
    /\ LET result == rollingSummary(env.gemini, response, TranscriptOf(t))
       IN IF result.threw THEN Unwind(t, "rollingSummary.throw")
          ELSE ResumeRolling(t, result.value[1])

\* gemini.debrief settles, the backend having answered with response
GeminiDebrief(t, response) ==
    /\ t \in tasks /\ t.pc = "debrief"
    /\ LET result == debrief(env.gemini, response, TranscriptOf(t))
       IN IF result.threw THEN Unwind(t, "debrief.throw")
          ELSE ResumeDebrief(t, result.value[1])

----------------------------------------------------------------------------
(* audio_chunk, close, time *)

\* an audio_chunk message arrives on ws
RecvAudio(ws, sessionId) ==
    LET id == nmsgs + 1
        o == Get(sessionId)
        code == IF o = 0 THEN "session_not_found"
                ELSE IF heap[o].sttMode # "deepgram" THEN "stt_not_active"
                ELSE IF heap[o].stream = 0 THEN "stt_stream_missing"
                ELSE ""
    IN /\ connOpen[ws]
       /\ inbox' = Append(inbox, Msg("audio_chunk", ws, sessionId, o, NoFields))
       /\ IF code # ""
          THEN /\ emitted' = Append(emitted, Event("error", sessionId, code, id, o, NoNumber,
                                                   <<>>, Send(ws)))
               /\ calls' = calls
          ELSE /\ calls' = Append(calls, Call("sendAudio", sessionId, o, id, <<>>))
               /\ emitted' = emitted
       /\ step' = Step(id, "audio_chunk", o, {"sttMode", "stream"})
       /\ UNCHANGED <<clock, sessions, heap, tasks, sessionClients, clientSessions, connOpen,
                      streams, genCount, env, vision, timers, loops, vlog>>

\* the socket closes: detachClient
Close(ws) ==
    /\ connOpen[ws]
    /\ connOpen' = [connOpen EXCEPT ![ws] = FALSE]
    /\ sessionClients' = DetachSessionClients(ws)
    /\ clientSessions' = MapDelete(clientSessions, ws)
    /\ step' = Step(0, "close", 0, {})
    /\ UNCHANGED <<clock, sessions, heap, tasks, streams, emitted, calls, inbox, genCount,
                   env, vision, timers, loops, vlog>>

\* time passes
Tick(d) ==
    /\ clock' = clock + d
    /\ step' = Step(0, "tick", 0, {})
    /\ UNCHANGED <<sessions, heap, tasks, sessionClients, clientSessions, connOpen, streams,
                   emitted, calls, inbox, genCount, env, vision, timers, loops, vlog>>

----------------------------------------------------------------------------
(* Inputs *)

Word(n) == Str("a", n)
Blank == Str(" ", 1)

Planning ==
    [topic_line |-> Text("Plans"), intent_tags |-> <<"planning">>, confidence |-> 50,
     uncertainty_notes |-> <<>>]
Instruction ==
    [topic_line |-> Text("Lesson"), intent_tags |-> <<"instruction", "planning">>,
     confidence |-> 120, uncertainty_notes |-> <<>>]
\* a debrief as the gateway returns it
Wrapup ==
    [bullets |-> <<Text("One"), Text("Two"), Text("Three")>>,
     suggestions |-> <<Text("Ask")>>, uncertainty_notes |-> <<Text("Short")>>]
Summaries == {Planning, Instruction}

Scene == [confidence |-> 50]

----------------------------------------------------------------------------
(* Spec: two clients and one session identifier, every kind of event, the  *)
(* collaborators answering in any order.  No session asks for persistence  *)
(* or for Deepgram here.                                                   *)

Next ==
    \/ \E ws \in Conns :
          /\ nmsgs < MaxEvents
          /\ RecvStart(ws, "s1", Undefined, Undefined, Undefined, Undefined, TRUE)
    \/ \E ws \in Conns, sessionId \in SessionIds :
          /\ nmsgs < MaxEvents
          /\ RecvTranscript(ws, sessionId, Word(9), Undefined, NoNumber, NoNumber)
    \/ \E t \in tasks, summary \in Summaries : ResumeRolling(t, summary)
    \/ \E ws \in Conns, sessionId \in SessionIds :
          /\ nmsgs < MaxEvents
          /\ RecvVision(ws, sessionId)
    \/ \E t \in tasks, ok \in BOOLEAN : ResumeVision(t, ok, Scene)
    \/ \E ws \in Conns, sessionId \in SessionIds :
          /\ nmsgs < MaxEvents
          /\ RecvEnd(ws, sessionId)
    \/ \E t \in tasks : ResumeDebrief(t, Wrapup)
    \/ \E t \in tasks, ok \in BOOLEAN : ResumeMetrics(t, ok)
    \/ clock + 2000 <= MaxClock /\ Tick(2000)

\* booted without a Mongo store and without a Deepgram key
InitBare == Init /\ env = Env(FALSE, FALSE, TRUE)

Spec == InitBare /\ [][Next]_vars

----------------------------------------------------------------------------
(* Properties of Spec *)

Objects == 1..Len(heap)
EventHandlers == {"handleTranscript", "handleVisionFrame", "endSession"}
EventTasks == {"transcript", "vision", "end"}
SerializedFields == {"buffer", "overlays", "lastSummaryAt", "lastSummaryChars"}

\* the invocations, other than the one that just ran, that are suspended at an await
\* on the session object the last stretch touched, and arrived before it
SuspendedEarlier ==
    {t \in tasks : t.obj = step.obj /\ t.id < step.task /\ t.kind \in EventTasks}

\* C1: per-session mutation is serialized.  When a handler of a transcript, vision
\* or end event reads or writes a session's buffer, overlay history, lastSummaryAt or
\* lastSummaryChars, no handler of an earlier event for the same session is suspended
\* at a gateway, persistence or metrics call.
C1_Serialized ==
    (/\ step.obj # 0
     /\ step.task # 0
     /\ inbox[step.task].type \in {"transcript_chunk", "vision_frame", "end_session"}
     /\ step.fields \cap SerializedFields # {})
    => SuspendedEarlier = {}

count(seq, P(_)) == Cardinality({i \in 1..Len(seq) : P(seq[i])})

DebriefCalls(o) == LET P(c) == c.op = "debrief" /\ c.obj = o IN count(calls, P)
DebriefEvents(o) == LET P(e) == e.type = "debrief" /\ e.obj = o IN count(emitted, P)

\* C2: for every session, in every interleaving (two end events for it before the
\* first has finished included), debrief generation is invoked at most once and at
\* most one debrief event is emitted; a session whose debrief field is set has had
\* exactly one debrief call and exactly one debrief event (the field is assigned in
\* the stretch that emits the event).
C2_DebriefOnce ==
    \A o \in Objects :
        /\ DebriefCalls(o) <= 1
        /\ DebriefEvents(o) <= 1
        /\ heap[o].debrief # <<>> => DebriefCalls(o) = 1 /\ DebriefEvents(o) = 1

OverlayEmittedFor(o) ==
    /\ Len(emitted') > Len(emitted)
    /\ \E i \in (Len(emitted) + 1)..Len(emitted') :
          emitted'[i].type = "overlay_update" /\ emitted'[i].obj = o

\* C3: for every session, lastSummaryAt and lastSummaryChars never decrease, and
\* they change only in a stretch of a handler that emits an overlay for the session.
C3_ThrottleMonotonic ==
    [][\A o \in Objects :
          /\ heap'[o].lastSummaryAt >= heap[o].lastSummaryAt
          /\ heap'[o].lastSummaryChars >= heap[o].lastSummaryChars
          /\ (\/ heap'[o].lastSummaryAt # heap[o].lastSummaryAt
              \/ heap'[o].lastSummaryChars # heap[o].lastSummaryChars)
             => OverlayEmittedFor(o)]_vars

\* the step is the handling of a transcript, vision or end event whose sessionId
\* is not in the registry
UnknownSessionEvent ==
    /\ Len(inbox') = Len(inbox) + 1
    /\ inbox'[Len(inbox')].type \in {"transcript_chunk", "vision_frame", "end_session"}
    /\ inbox'[Len(inbox')].sessionId \notin DOMAIN sessions

\* C9: a transcript, vision or end event whose sessionId is not in the registry
\* produces exactly one error event, with code session_not_found and that sessionId,
\* and mutates nothing: no session is created, no session's fields change, no
\* handler is left suspended and no gateway, persistence or metrics call is made.
C9_UnknownSession ==
    [][UnknownSessionEvent =>
          /\ Len(emitted') = Len(emitted) + 1
          /\ SubSeq(emitted', 1, Len(emitted)) = emitted
          /\ emitted'[Len(emitted')].type = "error"
          /\ emitted'[Len(emitted')].code = "session_not_found"
          /\ emitted'[Len(emitted')].sessionId = inbox'[Len(inbox')].sessionId
          /\ emitted'[Len(emitted')].cause = Len(inbox')
          /\ UNCHANGED <<sessions, heap, tasks, calls, streams, sessionClients,
                         clientSessions>>]_vars

\* reached: an event for the unknown "s2" was answered while session "s1" existed
\* with a transcript in its buffer
C9_Witness ==
    /\ step.task # 0
    /\ step.kind \in EventHandlers
    /\ inbox[step.task].sessionId = "s2"
    /\ emitted # <<>> /\ emitted[Len(emitted)].cause = step.task
    /\ MapHas(sessions, "s1") /\ heap[sessions["s1"]].buffer # <<>>

\* C10: the session_not_found error for a transcript, vision or end event is
\* written to the socket that sent the event.
C10_ErrorReachesSender ==
    \A i \in 1..Len(emitted) :
        (/\ emitted[i].code = "session_not_found"
         /\ inbox[emitted[i].cause].type \in
                {"transcript_chunk", "vision_frame", "end_session"}
         /\ inbox[emitted[i].cause].ws # Undefined)
        => inbox[emitted[i].cause].ws \in emitted[i].to

----------------------------------------------------------------------------
(* SpecStart: one client starting (and restarting) session "s1" with every *)
(* combination of optional fields, sending fragments and ending it, on a   *)
(* server booted with a Mongo store.                                       *)

Languages == {Undefined, "en", "es"}

NextStart ==
    \/ \E userId \in {Undefined, "u1"}, language \in Languages,
          saveMode \in {Undefined, "mongo"} :
          /\ nmsgs < MaxStartEvents
          /\ RecvStart("c1", "s1", userId, language, saveMode, Undefined, TRUE)
    \/ \E t \in tasks : ResumeOnStart(t, TRUE)
    \/ /\ nmsgs < MaxStartEvents
       /\ RecvTranscript("c1", "s1", Word(9), Undefined, NoNumber, NoNumber)
    \/ \E t \in tasks : ResumeRolling(t, Planning)
    \/ /\ nmsgs < MaxStartEvents
       /\ RecvEnd("c1", "s1")
    \/ \E t \in tasks : ResumeDebrief(t, Wrapup)
    \/ \E t \in tasks, ok \in BOOLEAN : ResumePersist(t, ok)
    \/ \E t \in tasks : ResumeMetrics(t, TRUE)

\* booted with a Mongo store and without a Deepgram key
InitMongo == Init /\ env = Env(TRUE, FALSE, TRUE)

SpecStart == InitMongo /\ [][NextStart]_vars

\* the overlay events that report a rolling summary (the greeting of start_session
\* is sent to one socket and reports none)
SummaryOverlays ==
    {j \in 1..Len(emitted) :
        /\ emitted[j].type = "overlay_update"
        /\ \E i \in 1..Len(calls) :
              calls[i].op = "rollingSummary" /\ calls[i].task = emitted[j].cause}

\* the tool events that accompany the overlay event at index j
ToolEventsFor(j) ==
    {k \in 1..Len(emitted) :
        /\ emitted[k].type = "tool_event"
        /\ emitted[k].cause = emitted[j].cause}

\* C12: every rolling summary whose intent tags include instruction yields exactly
\* one tool event (tool practice_prompt) for the same session, emitted after the
\* overlay event and with a timestamp equal to or later than the overlay's; a rolling
\* summary without the instruction tag yields no tool event.
C12_ToolEventPerInstruction ==
    /\ \A j \in SummaryOverlays :
          IF \E i \in 1..Len(emitted[j].tags) : emitted[j].tags[i] = "instruction"
          THEN /\ Cardinality(ToolEventsFor(j)) = 1
               /\ \A k \in ToolEventsFor(j) :
                     /\ k > j
                     /\ emitted[k].code = "practice_prompt"
                     /\ emitted[k].sessionId = emitted[j].sessionId
                     /\ emitted[k].ts >= emitted[j].ts
          ELSE ToolEventsFor(j) = {}
    /\ \A k \in 1..Len(emitted) :
          emitted[k].type = "tool_event" => \E j \in SummaryOverlays : k \in ToolEventsFor(j)

\* reached: one summary tagged instruction and planning and one tagged planning only
\* were both reported, the first with its tool event
C12_Witness ==
    /\ \E j \in SummaryOverlays :
          /\ emitted[j].tags = <<"instruction", "planning">>
          /\ ToolEventsFor(j) # {}
    /\ \E j \in SummaryOverlays : emitted[j].tags = <<"planning">>

----------------------------------------------------------------------------
(* Properties of SpecStart *)

\* the step is a start_session for an identifier that is already registered
DuplicateStart ==
    /\ Len(inbox') = Len(inbox) + 1
    /\ inbox'[Len(inbox')].type = "start_session"
    /\ inbox'[Len(inbox')].sessionId \in DOMAIN sessions

\* C6: a second start with the sessionId of an existing session and a different
\* language sets the language to the new value, returns the same record, and leaves
\* buffer, received chunks, overlay history, vision history, creation timestamp,
\* lastSummaryAt and lastSummaryChars as they were.
C6_RestartKeepsState ==
    [][LET msg == inbox'[Len(inbox')]
           o == sessions[msg.sessionId]
       IN (/\ DuplicateStart
           /\ msg.fields.language # Undefined
           /\ msg.fields.language # heap[o].language)
          => /\ msg.obj = o
             /\ sessions'[msg.sessionId] = o
             /\ Len(heap') = Len(heap)
             /\ heap'[o].language = msg.fields.language
             /\ heap'[o].buffer = heap[o].buffer
             /\ heap'[o].chunks = heap[o].chunks
             /\ heap'[o].overlays = heap[o].overlays
             /\ heap'[o].visionUpdates = heap[o].visionUpdates
             /\ heap'[o].createdAt = heap[o].createdAt
             /\ heap'[o].lastSummaryAt = heap[o].lastSummaryAt
             /\ heap'[o].lastSummaryChars = heap[o].lastSummaryChars]_vars

\* reached: a session started in "en" that has a transcript and an overlay was
\* started again in "es"
C6_Witness ==
    /\ step.kind = "start_session"
    /\ inbox[step.task].fields.language = "es"
    /\ \E j \in 1..(step.task - 1) :
          /\ inbox[j].type = "start_session"
          /\ inbox[j].obj = step.obj
          /\ inbox[j].fields.language = "en"
    /\ heap[step.obj].language = "es"
    /\ heap[step.obj].buffer # <<>>
    /\ heap[step.obj].overlays # <<>>
    /\ heap[step.obj].lastSummaryAt > 0

\* C7: a duplicate start overwrites a field only if the message supplies it: each of
\* userId, language, saveMode and sttMode that the start_session message omits keeps
\* the existing session's value.
C7_OmittedFieldsKept ==
    [][LET msg == inbox'[Len(inbox')]
           o == sessions[msg.sessionId]
       IN DuplicateStart
          => /\ msg.fields.userId = Undefined => heap'[o].userId = heap[o].userId
             /\ msg.fields.language = Undefined => heap'[o].language = heap[o].language
             /\ msg.fields.saveMode = Undefined => heap'[o].saveMode = heap[o].saveMode
             /\ msg.fields.sttMode = Undefined => heap'[o].sttMode = heap[o].sttMode]_vars

PersistenceOps == {"upsertUserPrefs", "saveSession"}

\* some start_session received so far for session object o asked for saveMode mongo
StartedWithMongo(o) ==
    \E j \in 1..Len(inbox) :
        /\ inbox[j].type = "start_session"
        /\ inbox[j].obj = o
        /\ inbox[j].fields.saveMode = "mongo"

\* C8: the persistence collaborator is never invoked for a session whose mode is
\* none when it is started and ended: every upsertUserPrefs and saveSession call is
\* made for a session that some start_session received before the call put into
\* mongo mode.
C8_NoPersistenceWhenNone ==
    \A i \in 1..Len(calls) :
        calls[i].op \in PersistenceOps => StartedWithMongo(calls[i].obj)

\* reached: on a server with a Mongo store, a session with a user, never started in
\* mongo mode, received a fragment, was ended and removed, and no persistence call
\* was made
C8_Witness ==
    /\ env.mongo
    /\ \E o \in Objects :
          /\ ~StartedWithMongo(o)
          /\ heap[o].userId # Undefined
          /\ heap[o].saveMode = "none"
          /\ heap[o].buffer # <<>>
          /\ heap[o].debrief # <<>>
          /\ ~MapHas(sessions, heap[o].sessionId)
          /\ \A i \in 1..Len(calls) : calls[i].op \notin PersistenceOps

----------------------------------------------------------------------------
(* SpecThrottle: one client, one session, fragments of 10, 50 and 600 characters
   arriving 100 ms or more apart *)

FragmentSizes == {9, 49, 599}

NextThrottle ==
    \/ /\ nmsgs = 0
       /\ RecvStart("c1", "s1", Undefined, Undefined, Undefined, Undefined, TRUE)
    \/ /\ nmsgs > 0 /\ nmsgs < MaxThrottleEvents
       /\ \E n \in FragmentSizes :
             RecvTranscript("c1", "s1", Word(n), Undefined, NoNumber, NoNumber)
    \/ \E t \in tasks : ResumeRolling(t, Planning)
    \/ \E d \in {100, 2000} : clock + d <= MaxClock /\ Tick(d)

SpecThrottle == InitBare /\ [][NextThrottle]_vars

\* the step handles a transcript fragment for a registered session
FragmentStep ==
    /\ Len(inbox') = Len(inbox) + 1
    /\ inbox'[Len(inbox')].type = "transcript_chunk"
    /\ inbox'[Len(inbox')].obj # 0

\* the step calls rollingSummary for the fragment it handles
Triggers ==
    /\ Len(calls') = Len(calls) + 1
    /\ calls'[Len(calls')].op = "rollingSummary"
    /\ calls'[Len(calls')].task = Len(inbox')
    /\ \E t \in tasks' \ tasks : t.id = Len(inbox') /\ t.pc = "rollingSummary"

\* C4: a transcript fragment for an existing session triggers a rollingSummary call
\* if and only if it is not the case that both now - lastSummaryAt < minIntervalMs and
\* buffer.length - lastSummaryChars < minCharsDelta, the buffer measured after the
\* fragment is appended; with 1500 ms and 500 characters, (200 ms, 50 chars) does not
\* trigger, (2000 ms, 10 chars) triggers and (100 ms, 600 chars) triggers.
C4_ThrottleIff ==
    [][FragmentStep =>
         LET o == inbox'[Len(inbox')].obj
             timeDelta == clock - heap[o].lastSummaryAt
             charDelta == StrLen(heap'[o].buffer) - heap[o].lastSummaryChars
         IN /\ summaryIntervalMs = 1500 /\ summaryChars = 500
            /\ Triggers <=> ~(timeDelta < summaryIntervalMs /\ charDelta < summaryChars)
            /\ (timeDelta = 200 /\ charDelta = 50) => ~Triggers
            /\ (timeDelta = 2000 /\ charDelta = 10) => Triggers
            /\ (timeDelta = 100 /\ charDelta = 600) => Triggers]_vars

\* the last step handled a fragment for a registered session, timeDelta after its
\* last summary and with charDelta characters since then
FragmentHandled(timeDelta, charDelta) ==
    /\ step.kind = "handleTranscript" /\ step.obj # 0
    /\ Len(heap[step.obj].overlays) > 0
    /\ clock - heap[step.obj].lastSummaryAt = timeDelta
    /\ StrLen(heap[step.obj].buffer) - heap[step.obj].lastSummaryChars = charDelta

\* the last step left a handler suspended in rollingSummary
SummaryStarted ==
    /\ \E t \in tasks : t.id = step.task /\ t.pc = "rollingSummary"
    /\ calls # <<>>
    /\ calls[Len(calls)].op = "rollingSummary" /\ calls[Len(calls)].task = step.task

\* reached: a fragment of 50 characters, 200 ms after the session's last summary,
\* was appended and no summary was started for it
C4_Witness ==
    /\ FragmentHandled(200, 50)
    /\ tasks = {}
    /\ \A i \in 1..Len(calls) : calls[i].task # step.task

\* reached: a fragment of 10 characters 2000 ms after the last summary started one
C4_SlowFragmentTriggers == FragmentHandled(2000, 10) /\ SummaryStarted

\* reached: a fragment of 600 characters 100 ms after the last summary started one
C4_LongFragmentTriggers == FragmentHandled(100, 600) /\ SummaryStarted

----------------------------------------------------------------------------
(* SpecTail: one client, one session, short fragments with and without a speaker
   label, blank ones among them *)

Fragments ==
    { [text |-> Blank, speaker |-> Undefined],
      [text |-> Word(1), speaker |-> Undefined],
      [text |-> Word(2), speaker |-> Undefined],
      [text |-> Word(1), speaker |-> "A"] }

NextTail ==
    \/ /\ nmsgs = 0
       /\ RecvStart("c1", "s1", Undefined, Undefined, Undefined, Undefined, TRUE)
    \/ /\ nmsgs > 0 /\ nmsgs < MaxTailEvents
       /\ Cardinality(tasks) < MaxPending
       /\ \E f \in Fragments :
             RecvTranscript("c1", "s1", f.text, f.speaker, NoNumber, NoNumber)
    \/ \E t \in tasks : ResumeRolling(t, Planning)

SpecTail == InitBare /\ [][NextTail]_vars

\* the lines of the fragments a session received, in arrival order
LinesOf(session) == [j \in 1..Len(session.chunks) |-> Line(session.chunks[j])]

\* the last n entries of seq
LastN(seq, n) == IF Len(seq) > n THEN SubSeq(seq, Len(seq) - n + 1, Len(seq)) ELSE seq

\* C5: after any sequence of transcript fragments handled for a session, with or
\* without speaker labels and with blank fragments interleaved, the recent-lines tail
\* has at most 4 entries, none empty or whitespace-only, and holds the most recent
\* non-blank lines in arrival order, the oldest dropped first.
C5_TailBounded ==
    \A o \in 1..Len(heap) :
        LET tail == heap[o].display.transcript_tail
        IN /\ Len(tail) <= 4
           /\ \A i \in 1..Len(tail) : TrimNonEmpty(tail[i])
           /\ tail = LastN(SelectSeq(LinesOf(heap[o]), TrimNonEmpty), 4)

\* reached: a session that received a blank fragment and more non-blank lines than
\* the tail holds, labelled and unlabelled, so that the oldest line was dropped
C5_Witness ==
    /\ step.kind = "handleTranscript" /\ step.obj # 0
    /\ LET session == heap[step.obj]
           lines == LinesOf(session)
       IN /\ Len(SelectSeq(lines, TrimNonEmpty)) > 4
          /\ \E j \in 1..Len(lines) : ~TrimNonEmpty(lines[j])
          /\ \E j \in 1..Len(lines) : session.chunks[j].speaker # Undefined
          /\ Len(session.display.transcript_tail) = 4
          /\ session.display.transcript_tail[1] # session.display.transcript_tail[4]
          /\ SelectSeq(lines, TrimNonEmpty)[1] # session.display.transcript_tail[1]

----------------------------------------------------------------------------
(* SpecGemini: one client, one session; every call to the gateway is answered
   by a backend that throws, answers without JSON, with malformed JSON, with an
   object the schema rejects or with a valid one, or is not configured at all *)

\* "teach" and three more characters: heuristicRolling tags it instruction
Teach == Lit(<<"t", "e", "a", "c", "h">>) \o Str(" ", 1) \o Str("a", 2)
\* a fragment with no sentence in it
Dots == Str(".", 2)

NoTags ==
    [topic_line |-> Text("Nothing"), intent_tags |-> <<>>, confidence |-> 50,
     uncertainty_notes |-> <<>>]
FewBullets ==
    [bullets |-> <<Text("One")>>, suggestions |-> <<Text("Ask")>>,
     uncertainty_notes |-> <<Text("Short")>>]

RollingResponses ==
    {Response("throws", NoTags), Response("no_json", NoTags),
     Response("malformed", NoTags), Response("object", NoTags),
     Response("object", Instruction), Response("object", Planning)}

DebriefResponses ==
    {Response("throws", FewBullets), Response("no_json", FewBullets),
     Response("malformed", FewBullets), Response("object", FewBullets),
     Response("object", Wrapup)}

NextGemini ==
    \/ /\ nmsgs = 0
       /\ RecvStart("c1", "s1", Undefined, Undefined, Undefined, Undefined, TRUE)
    \/ /\ nmsgs > 0 /\ nmsgs < MaxGeminiEvents
       /\ \E text \in {Word(9), Teach, Dots} :
             RecvTranscript("c1", "s1", text, Undefined, NoNumber, NoNumber)
    \/ \E t \in tasks, response \in RollingResponses : GeminiRolling(t, response)
    \/ /\ nmsgs > 0 /\ nmsgs < MaxGeminiEvents
       /\ RecvEnd("c1", "s1")
    \/ \E t \in tasks, response \in DebriefResponses : GeminiDebrief(t, response)
    \/ \E t \in tasks : ResumeMetrics(t, TRUE)

\* booted without a Mongo store and a Deepgram key, with or without a Gemini key
InitGemini == Init /\ ~env.mongo /\ ~env.deepgram /\ DefaultCaps

SpecGemini == InitGemini /\ [][NextGemini]_vars

\* the gateway call of invocation c.task has settled
Settled(c) == \A t \in tasks : ~(t.id = c.task /\ t.pc = c.op)

\* C11: whatever the generation backend does (no client, a call that throws,
\* malformed or schema-invalid output, valid output), rollingSummary and debrief
\* return a well-formed result and no exception leaves the handler, and the overlay
\* event (when the throttle is due) and the debrief event (on end) are emitted.
C11_GatewayNeverThrows ==
    /\ step.kind \notin {"rollingSummary.throw", "debrief.throw"}
    /\ \A o \in 1..Len(heap) :
          /\ \A i \in 1..Len(heap[o].overlays) :
                RollingSchema(heap[o].overlays[i])
          /\ \A i \in 1..Len(heap[o].debrief) : DebriefSchema(heap[o].debrief[i])
    /\ \A i \in 1..Len(calls) :
          (calls[i].op = "rollingSummary" /\ Settled(calls[i]))
          => \E j \in 1..Len(emitted) :
                /\ emitted[j].type = "overlay_update"
                /\ emitted[j].cause = calls[i].task
                /\ emitted[j].sessionId = calls[i].sessionId
    /\ \A i \in 1..Len(calls) :
          (calls[i].op = "debrief" /\ Settled(calls[i]))
          => \E j \in 1..Len(emitted) :
                /\ emitted[j].type = "debrief"
                /\ emitted[j].cause = calls[i].task
                /\ emitted[j].sessionId = calls[i].sessionId

\* reached: with a Gemini key configured, a fragment about teaching got an overlay
\* with the heuristic's content and the session's end a debrief with the heuristic's
\* bullets, the backend having answered neither call with a valid object
C11_Witness ==
    /\ env.gemini
    /\ \E o \in 1..Len(heap) :
          /\ heap[o].overlays # <<>>
          /\ heap[o].overlays[1].intent_tags = <<"instruction">>
          /\ heap[o].overlays[1].topic_line = Teach
          /\ heap[o].debrief # <<>>
          /\ heap[o].debrief[1].bullets[1] = Text("Main topic: ") \o Teach
          /\ \E j \in 1..Len(emitted) :
                emitted[j].type = "overlay_update" /\ emitted[j].obj = o
          /\ \E j \in 1..Len(emitted) :
                emitted[j].type = "debrief" /\ emitted[j].obj = o

----------------------------------------------------------------------------
(* SpecDuration: one client, one session, fragments with and without time ranges,
   sent in any order, and time passing before the session is ended *)

\* the time ranges a fragment carries: none, one that starts first and ends last,
\* one inside it
Spans ==
    { [t0_ms |-> NoNumber, t1_ms |-> NoNumber],
      [t0_ms |-> 0, t1_ms |-> 10000],
      [t0_ms |-> 2000, t1_ms |-> 3000] }

NextDuration ==
    \/ /\ nmsgs = 0
       /\ RecvStart("c1", "s1", Undefined, Undefined, Undefined, Undefined, TRUE)
    \/ /\ nmsgs > 0 /\ nmsgs < MaxDurationEvents
       /\ \E span \in Spans :
             RecvTranscript("c1", "s1", Word(9), Undefined, span.t0_ms, span.t1_ms)
    \/ \E t \in tasks : ResumeRolling(t, Planning)
    \/ /\ nmsgs > 0 /\ nmsgs < MaxDurationEvents
       /\ RecvEnd("c1", "s1")
    \/ \E t \in tasks : ResumeDebrief(t, Wrapup)
    \/ \E t \in tasks : ResumeMetrics(t, TRUE)
    \/ clock + 2000 <= MaxClock /\ Tick(2000)

SpecDuration == InitBare /\ [][NextDuration]_vars

\* the step hands a metrics event to snowflake.send
MetricsStep ==
    /\ Len(calls') = Len(calls) + 1
    /\ calls'[Len(calls')].op = "snowflake.send"

\* the duration_s of the metrics event the step sends
SentDuration == calls'[Len(calls')].arg[1].duration_s

\* the time ranges of the fragments of the session the step sends metrics for
SentTimes ==
    LET chunks == heap'[calls'[Len(calls')].obj].chunks
    IN {WithTimes(chunks[i]) : i \in 1..Len(chunks)}

SetMax(S) == CHOOSE x \in S : \A y \in S : y <= x
SetMin(S) == CHOOSE x \in S : \A y \in S : x <= y

\* C13: when at least one received fragment has a positive span, the metrics
\* duration estimate equals the maximum t1_ms over all fragments minus the minimum
\* t0_ms over all fragments (in seconds), for any arrival order and any overlap of
\* the time ranges, a fragment that starts earliest and ends latest included.
C13_DurationIsMaxMinusMin ==
    [][(MetricsStep /\ \E w \in SentTimes : w.t1 > w.t0)
       => SentDuration = RoundSeconds(SetMax({w.t1 : w \in SentTimes})
                                      - SetMin({w.t0 : w \in SentTimes}))]_vars

\* C14: when fragment timestamps are absent or non-positive, the case of a session
\* that received no fragment included, the metrics duration estimate is the
\* wall-clock session age: end-of-session time minus creation time, in seconds.
C14_DurationFallsBack ==
    [][(MetricsStep /\ \A w \in SentTimes : w.t0 <= 0 /\ w.t1 <= 0)
       => SentDuration = RoundSeconds(clock - heap[calls'[Len(calls')].obj].createdAt)]_vars

----------------------------------------------------------------------------
(* Further properties of Spec *)

\* C15: once the vision interval has elapsed, a vision frame always results in an
\* emitted vision update: when the vision summary call fails, the last known
\* snapshot (or an unknown one when none exists) is emitted instead, so that every
\* visionSummary call that has settled is followed by a vision_update event.
C15_VisionAlwaysEmits ==
    \A i \in 1..Len(calls) :
        (calls[i].op = "visionSummary" /\ Settled(calls[i]))
        => \E j \in 1..Len(emitted) :
              /\ emitted[j].type = "vision_update"
              /\ emitted[j].cause = calls[i].task
              /\ emitted[j].sessionId = calls[i].sessionId

----------------------------------------------------------------------------
(* SpecEnd: one client, one session, started with or without saveMode mongo on
   a server with or without a Mongo store, and ended (perhaps twice) while
   saveSession and snowflake.send succeed or throw *)

NextEnd ==
    \/ /\ nmsgs < MaxEndEvents
       /\ \E saveMode \in {Undefined, "mongo"} :
             RecvStart("c1", "s1", Undefined, Undefined, saveMode, Undefined, TRUE)
    \/ /\ nmsgs < MaxEndEvents
       /\ RecvTranscript("c1", "s1", Word(9), Undefined, NoNumber, NoNumber)
    \/ \E t \in tasks : ResumeRolling(t, Planning)
    \/ /\ nmsgs < MaxEndEvents
       /\ RecvEnd("c1", "s1")
    \/ \E t \in tasks : ResumeDebrief(t, Wrapup)
    \/ \E t \in tasks, ok \in BOOLEAN : ResumePersist(t, ok)
    \/ \E t \in tasks, ok \in BOOLEAN : ResumeMetrics(t, ok)

\* booted with or without a Mongo store, without a Deepgram key
InitEnd == Init /\ ~env.deepgram /\ env.gemini /\ DefaultCaps

SpecEnd == InitEnd /\ [][NextEnd]_vars

\* the events the step emits and the calls it makes
NewEvents == SubSeq(emitted', Len(emitted) + 1, Len(emitted'))
NewCalls == SubSeq(calls', Len(calls) + 1, Len(calls'))

\* the error event `code` of invocation k, scoped to session sessionId
ScopedError(e, code, k, sessionId) ==
    /\ e.type = "error" /\ e.code = code
    /\ e.cause = k /\ e.sessionId = sessionId

\* what invocation k did so far: its events of one type and code, its calls of one op
EventsOf(k, type, code) ==
    {j \in 1..Len(emitted) :
        emitted[j].cause = k /\ emitted[j].type = type /\ emitted[j].code = code}
CallsOf(k, op) == {i \in 1..Len(calls) : calls[i].task = k /\ calls[i].op = op}

\* the end_session invocations that found their session
Endings == {k \in 1..Len(inbox) : inbox[k].type = "end_session" /\ inbox[k].obj # 0}

\* no end_session invocation does any of its side effects twice
EndEffectsOnce ==
    \A k \in Endings :
        /\ Cardinality(EventsOf(k, "debrief", "")) <= 1
        /\ Cardinality(CallsOf(k, "saveSession")) <= 1
        /\ Cardinality(CallsOf(k, "snowflake.send")) <= 1
        /\ \A code \in {"mongo_unavailable", "mongo_write_failed", "analytics_failed"} :
              Cardinality(EventsOf(k, "error", code)) <= 1
        /\ (\A t \in tasks : t.id # k)
           => /\ Cardinality(EventsOf(k, "debrief", "")) = 1
              /\ Cardinality(CallsOf(k, "snowflake.send")) = 1

\* the debrief of an end_session has returned: the debrief is emitted; then, in mongo
\* mode, either one save is attempted or, without a store, one mongo_unavailable
\* error is emitted and the metrics are attempted; in any other mode the metrics are
\* attempted
AfterDebrief ==
    LET k == step'.task
        session == heap'[step'.obj]
        sid == session.sessionId
    IN step'.kind = "debrief.return"
       => /\ Len(NewEvents) >= 1 /\ NewEvents[1].type = "debrief" /\ NewEvents[1].cause = k
          /\ Len(NewCalls) = 1 /\ NewCalls[1].task = k
          /\ IF session.saveMode # "mongo"
             THEN Len(NewEvents) = 1 /\ NewCalls[1].op = "snowflake.send"
             ELSE IF env.mongo
             THEN Len(NewEvents) = 1 /\ NewCalls[1].op = "saveSession"
             ELSE /\ Len(NewEvents) = 2
                  /\ ScopedError(NewEvents[2], "mongo_unavailable", k, sid)
                  /\ NewCalls[1].op = "snowflake.send"

\* saveSession has returned or thrown: a failure gives one mongo_write_failed error,
\* and either way the metrics are attempted and the save is not repeated
AfterPersist ==
    LET k == step'.task
        sid == heap'[step'.obj].sessionId
    IN step'.kind \in {"saveSession.return", "saveSession.throw"}
       => /\ Len(NewCalls) = 1
          /\ NewCalls[1].op = "snowflake.send" /\ NewCalls[1].task = k
          /\ IF step'.kind = "saveSession.throw"
             THEN Len(NewEvents) = 1
                  /\ ScopedError(NewEvents[1], "mongo_write_failed", k, sid)
             ELSE NewEvents = <<>>

\* snowflake.send has returned or thrown: a failure gives one analytics_failed error,
\* nothing is attempted again and the invocation is over
AfterMetrics ==
    LET k == step'.task
    IN step'.kind \in {"send.return", "send.throw"}
       => /\ NewCalls = <<>>
          /\ \A t \in tasks' : t.id # k
          /\ IF step'.kind = "send.throw"
             THEN Len(NewEvents) = 1
                  /\ ScopedError(NewEvents[1], "analytics_failed", k, inbox[k].sessionId)
             ELSE NewEvents = <<>>

\* C16: on ending an existing session the debrief emission, the persistence attempt
\* (when the mode requires it) and the metrics attempt each happen whether or not
\* the others succeed; each failing persistence or metrics attempt, an unconfigured
\* store included, produces exactly one error event scoped to the session, and each
\* attempt is made exactly once, never retried.
C16_EndEffectsIndependent ==
    []EndEffectsOnce /\ [][AfterDebrief /\ AfterPersist /\ AfterMetrics]_vars

\* reached: an end_session whose save and whose metrics both failed, each reported
\* by one error event, after its debrief was emitted
C16_Witness ==
    /\ step.kind = "send.throw"
    /\ step.task \in Endings
    /\ Cardinality(EventsOf(step.task, "debrief", "")) = 1
    /\ Cardinality(CallsOf(step.task, "saveSession")) = 1
    /\ Cardinality(EventsOf(step.task, "error", "mongo_write_failed")) = 1
    /\ Cardinality(CallsOf(step.task, "snowflake.send")) = 1
    /\ Cardinality(EventsOf(step.task, "error", "analytics_failed")) = 1

\* the end_session invocations that are suspended on session object o
Finalizing(o) == {t \in tasks : t.kind = "end" /\ t.obj = o}

\* C20: once end-of-session handling has begun for a session, no further transcript
\* fragment for it is processed: a fragment that arrives while the debrief,
\* persistence or metrics call is outstanding is not appended to the buffer and
\* triggers no rolling summary.
C20_NoFragmentWhileFinalizing ==
    [][(FragmentStep /\ Finalizing(inbox'[Len(inbox')].obj) # {})
       => LET o == inbox'[Len(inbox')].obj
          IN /\ heap'[o].buffer = heap[o].buffer
             /\ heap'[o].chunks = heap[o].chunks
             /\ calls' = calls]_vars

\* the invocation the step belongs to, as it was suspended before the step
StepTask == CHOOSE t \in tasks : t.id = step'.task

\* the step is the return of a rollingSummary call: the overlay is built and emitted
OverlayStep == step'.kind = "rollingSummary.return" /\ step'.task \in {t.id : t \in tasks}

\* C22: each latency sample recorded for an emitted overlay is the time from the
\* arrival of the triggering fragment to the emission of the overlay, the wait for
\* the rollingSummary call included, and exactly one sample is recorded per overlay.
C22_LatencyIsArrivalToEmission ==
    [][OverlayStep
       => LET o == step'.obj
              before == heap[o].overlayLatenciesMs
              after == heap'[o].overlayLatenciesMs
          IN /\ Len(heap'[o].overlays) = Len(heap[o].overlays) + 1
             /\ Len(after) = Len(before) + 1
             /\ after[Len(after)] = clock' - StepTask.chunk.receivedAt]_vars

----------------------------------------------------------------------------
(* SpecStream: one client and one session in deepgram mode on a server with a
   Deepgram key and a Mongo store; startStream and stop may throw *)

NextStream ==
    \/ /\ nmsgs < MaxStreamEvents
       /\ \E userId \in {Undefined, "u1"}, saveMode \in {Undefined, "mongo"},
             streamOk \in BOOLEAN :
             RecvStart("c1", "s1", userId, Undefined, saveMode, "deepgram", streamOk)
    \/ \E t \in tasks, streamOk \in BOOLEAN : ResumeOnStart(t, streamOk)
    \/ /\ nmsgs < MaxStreamEvents
       /\ RecvAudio("c1", "s1")
    \/ /\ nmsgs < MaxStreamEvents
       /\ RecvEnd("c1", "s1")
    \/ \E t \in tasks : ResumeDebrief(t, Wrapup)
    \/ \E t \in tasks : ResumePersist(t, TRUE)
    \/ \E t \in tasks : ResumeMetrics(t, TRUE)
    \/ \E t \in tasks, stopped \in BOOLEAN : ResumeMetricsStopThrows(t, TRUE, stopped)

\* booted with a Mongo store, a Deepgram key and a Gemini key
InitStream == Init /\ env = Env(TRUE, TRUE, TRUE)

SpecStream == InitStream /\ [][NextStream]_vars

\* every awaited call settles
SpecStreamFair ==
    /\ SpecStream
    /\ WF_vars(\E t \in tasks, streamOk \in BOOLEAN : ResumeOnStart(t, streamOk))
    /\ WF_vars(\E t \in tasks : ResumeDebrief(t, Wrapup))
    /\ WF_vars(\E t \in tasks : ResumePersist(t, TRUE))
    /\ WF_vars(\E t \in tasks :
                  \/ ResumeMetrics(t, TRUE)
                  \/ \E stopped \in BOOLEAN : ResumeMetricsStopThrows(t, TRUE, stopped))

\* session object o is the record registered under its identifier
Registered(o) ==
    MapHas(sessions, heap[o].sessionId) /\ sessions[heap[o].sessionId] = o

\* the session that end_session invocation k found is no longer registered
Removed(k) ==
    /\ k <= Len(inbox)
    /\ inbox[k].type = "end_session" /\ inbox[k].obj # 0
    /\ ~Registered(inbox[k].obj)

\* a session leaves the registry only in the last stretch of an end_session that
\* has emitted its debrief and finished its persistence and metrics attempts
RemovalIsLast ==
    \A o \in 1..Len(heap) :
        (Registered(o) /\ ~Registered(o)')
        => LET k == step'.task
           IN /\ k \in Endings
              /\ EventsOf(k, "debrief", "") # {}
              /\ CallsOf(k, "snowflake.send") # {}
              /\ step'.kind \in {"send.return", "send.throw"}
              /\ \A t \in tasks' : t.id # k

\* C17: every end event for an existing session eventually removes that session
\* from the registry, whether persistence and metrics succeed or fail, and the
\* removal comes after the debrief event was emitted and after the persistence and
\* metrics attempts have completed.
C17_EndRemovesSession ==
    /\ [][RemovalIsLast]_vars
    /\ \A k \in 1..MaxStreamEvents : (k \in Endings) ~> Removed(k)

\* the step runs store.remove for the session of an end_session
RemoveStep == step'.kind \in {"send.return", "send.throw", "remove.throw"} /\ step' # step

\* C18: remove(id) stops an active streaming handle before deleting the record and
\* deletes the record even when stopping the handle fails, the failure not being
\* thrown to the caller; remove of an id that is not in the registry changes nothing.
C18_RemoveBestEffort ==
    [][RemoveStep
       => LET sid == inbox[step'.task].sessionId
          IN /\ step'.kind # "remove.throw"
             /\ ~MapHas(sessions', sid)
             /\ MapHas(sessions, sid)
                => \A h \in 1..Len(streams) :
                      streams[h].obj = sessions[sid] => streams'[h].state = "stopped"
             /\ ~MapHas(sessions, sid)
                => sessions' = sessions /\ streams' = streams /\ heap' = heap]_vars

\* C19: for every session and every interleaving of start, audio and end events
\* (repeated start_session messages and an end that completes while a start still
\* awaits onStart included) at most one streaming handle is ever created for the
\* session, and every handle that was created has been stopped once the session is
\* no longer in the registry.
C19_OneStreamStoppedAtRemoval ==
    \A o \in 1..Len(heap) :
        /\ Cardinality({h \in 1..Len(streams) : streams[h].obj = o}) <= 1
        /\ ~Registered(o)
           => \A h \in 1..Len(streams) : streams[h].obj = o => streams[h].state = "stopped"

----------------------------------------------------------------------------
(* SpecWindow: one client, one session, short fragments, on servers configured
   with every pair of window caps of RollingCaps and DebriefCaps *)

NextWindow ==
    \/ /\ nmsgs < MaxWindowEvents
       /\ RecvStart("c1", "s1", Undefined, Undefined, Undefined, Undefined, TRUE)
    \/ /\ nmsgs < MaxWindowEvents
       /\ \E text \in {Str("a", 2), Str("b", 3)} :
             RecvTranscript("c1", "s1", text, Undefined, NoNumber, NoNumber)
    \/ \E t \in tasks : ResumeRolling(t, Planning)
    \/ /\ nmsgs < MaxWindowEvents
       /\ RecvEnd("c1", "s1")
    \/ \E t \in tasks : ResumeDebrief(t, Wrapup)
    \/ \E t \in tasks : ResumeMetrics(t, TRUE)

\* booted with a Gemini key only, the window caps being any the configuration accepts
InitWindow == Init /\ ~env.mongo /\ ~env.deepgram /\ env.gemini

SpecWindow == InitWindow /\ [][NextWindow]_vars

\* the characters of s, one by one
RECURSIVE Expand(_)
Expand(s) ==
    IF s = <<>> THEN <<>>
    ELSE [i \in 1..Head(s).n |-> Head(s).ch] \o Expand(Tail(s))

\* w is the last StrLen(w) characters of s
IsSuffix(w, s) ==
    LET a == Expand(w)
        b == Expand(s)
    IN /\ Len(a) <= Len(b)
       /\ a = SubSeq(b, Len(b) - Len(a) + 1, Len(b))

\* min(len, cap), a cap below 0 counting as 0
Bounded(len, cap) == IF cap <= 0 THEN 0 ELSE IF len < cap THEN len ELSE cap

\* the text handed to the gateway by call c is the newest Bounded(length, cap)
\* characters of buffer
WindowOf(c, buffer, cap) ==
    IsSuffix(c.arg, buffer) /\ StrLen(c.arg) = Bounded(StrLen(buffer), cap)

\* C21: the text passed to rollingSummary is the suffix of the session buffer of
\* length min(buffer length, maxRollingChars) and the text passed to debrief the
\* suffix of length min(buffer length, maxDebriefChars), for every buffer and every
\* cap the configuration accepts, 0 and negative values included.
C21_WindowIsBoundedSuffix ==
    [][\A i \in 1..Len(NewCalls) :
          LET c == NewCalls[i]
          IN /\ c.op = "rollingSummary"
                => WindowOf(c, heap'[c.obj].buffer, env.maxRollingChars)
             /\ c.op = "debrief"
                => WindowOf(c, heap[c.obj].buffer, env.maxDebriefChars)]_vars

----------------------------------------------------------------------------
(* SpecIsolation: one client working with the two sessions "s1" and "s2" at
   once on a server with a Mongo store: starts with and without saveMode mongo,
   fragments and ends for both, the collaborators answering in any order *)

NextIsolation ==
    \/ /\ nmsgs < MaxIsolationEvents
       /\ \E sessionId \in SessionIds, saveMode \in {Undefined, "mongo"} :
             RecvStart("c1", sessionId, Undefined, Undefined, saveMode, Undefined, TRUE)
    \/ /\ nmsgs < MaxIsolationEvents
       /\ \E sessionId \in SessionIds :
             RecvTranscript("c1", sessionId, Word(9), Undefined, NoNumber, NoNumber)
    \/ \E t \in tasks : ResumeRolling(t, Planning)
    \/ /\ nmsgs < MaxIsolationEvents
       /\ \E sessionId \in SessionIds : RecvEnd("c1", sessionId)
    \/ \E t \in tasks : ResumeDebrief(t, Wrapup)
    \/ \E t \in tasks : ResumePersist(t, TRUE)
    \/ \E t \in tasks : ResumeMetrics(t, TRUE)

SpecIsolation == InitMongo /\ [][NextIsolation]_vars

\* the awaited call of the suspended invocation t can return now
CanResume(t) ==
    CASE t.pc = "rollingSummary" -> ENABLED ResumeRolling(t, Planning)
      [] t.pc = "debrief" -> ENABLED ResumeDebrief(t, Wrapup)
      [] t.pc = "persist" -> ENABLED ResumePersist(t, TRUE)
      [] t.pc = "metrics" -> ENABLED ResumeMetrics(t, TRUE)
      [] OTHER -> FALSE

\* an event for sessionId is taken by its handler now
CanHandle(sessionId) ==
    /\ ENABLED RecvTranscript("c1", sessionId, Word(9), Undefined, NoNumber, NoNumber)
    /\ ENABLED RecvEnd("c1", sessionId)

\* no handler, arriving or suspended, waits for an outstanding call of another session
NothingWaits ==
    /\ \A sessionId \in SessionIds : CanHandle(sessionId)
    /\ \A t \in tasks : CanResume(t)

\* the step of a handler leaves the records and registry entries of every other
\* session as they were
OthersUntouched ==
    step'.task # 0 /\ step'.task <= Len(inbox')
    => LET mine == inbox'[step'.task].sessionId
       IN /\ \A o \in 1..Len(heap) : heap[o].sessionId # mine => heap'[o] = heap[o]
          /\ \A sid \in (DOMAIN sessions) \ {mine} :
                MapHas(sessions', sid) /\ sessions'[sid] = sessions[sid]

\* C24: sessions are isolated: while a gateway, persistence or metrics call for one
\* session is outstanding an event for another session is handled without waiting
\* for it, and no handler run for one session changes a field of another session's
\* record.
C24_SessionsIsolated == []NothingWaits /\ [][OthersUntouched]_vars

\* a fragment for s2 was handled, and its own summary returned, while the end of s1
\* was still waiting for mongo.saveSession
C24_Witness ==
    /\ \E t \in tasks : t.sessionId = "s1" /\ t.pc = "persist"
    /\ step.kind = "rollingSummary.return"
    /\ step.obj # 0 /\ heap[step.obj].sessionId = "s2"
    /\ \E t \in tasks : t.sessionId = "s1" /\ t.id < step.task

----------------------------------------------------------------------------
(* The processor that owns its sessions (pipeline/stt_deepgram.ts) behind the
   hub of ws/hub.ts: start_session, transcript_chunk and pause_overlay.  Its
   session records carry a pause flag; `sessions` and `heap` model its own
   Map of sessions. *)

\* the defaults of its configuration
SUMMARY_INTERVAL_MS == 5000
SUMMARY_CHARS == 600
SAVE_DEFAULT == "none"

\* the record its startSession constructs for a new identifier
NewSessionState(sessionId, params, now) ==
    [sessionId |-> sessionId,
     userId |-> params.userId,
     language |-> params.language,
     saveMode |-> Coalesce(params.saveMode, SAVE_DEFAULT),
     buffer |-> <<>>,
     chunks |-> <<>>,
     overlays |-> <<>>,
     createdAt |-> now,
     lastSummaryAt |-> 0,
     lastSummaryChars |-> 0,
     paused |-> FALSE]

\* the merge its startSession applies to an existing record
MergeSessionState(existing, params) ==
    [existing EXCEPT !.userId = Coalesce(params.userId, existing.userId),
                     !.language = Coalesce(params.language, existing.language),
                     !.saveMode = Coalesce(params.saveMode, existing.saveMode)]

\* a start_session message arrives on ws: startSession, addClientSession and, for a
\* generated identifier, the greeting overlay through emitOverlay
StartSessionCase(ws, sessionId, userId, language, saveMode) ==
    LET id == nmsgs + 1
        explicit == sessionId # Undefined
        sid == IF explicit THEN sessionId ELSE GenIds[genCount + 1]
        params == [userId |-> userId, language |-> language, saveMode |-> saveMode]
        existing == MapHas(sessions, sid)
        o == IF existing THEN sessions[sid] ELSE Len(heap) + 1
        clients == AttachSessionClients(ws, sid)
    IN /\ connOpen[ws]
       /\ explicit \/ genCount < Len(GenIds)
       /\ inbox' = Append(inbox, Msg("start_session", ws, sid, o,
                                 StartFields(sessionId, userId, language, saveMode,
                                             Undefined)))
       /\ genCount' = IF explicit THEN genCount ELSE genCount + 1
       /\ heap' = IF existing THEN [heap EXCEPT ![o] = MergeSessionState(@, params)]
                  ELSE Append(heap, NewSessionState(sid, params, clock))
       /\ sessions' = MapSet(sessions, sid, o)
       /\ clientSessions' = AttachClientSessions(ws, sid)
       /\ sessionClients' = clients
       /\ emitted' = IF ~Greets(explicit) THEN emitted
                     ELSE Append(emitted,
                                 Event("overlay_update", sid, "", id, o, clock,
                                       <<"planning">>,
                                       {w \in clients[sid] : connOpen[w]}))
       /\ step' = Step(id, "startSession", o, {"userId", "language", "saveMode"})
       /\ UNCHANGED <<clock, tasks, connOpen, streams, calls, env, vision, timers, loops, vlog>>

\* a pause_overlay message arrives on ws: setPaused
PauseOverlayCase(ws, sessionId, paused) ==
    LET id == nmsgs + 1
        o == Get(sessionId)
    IN /\ connOpen[ws]
       /\ inbox' = Append(inbox, Msg("pause_overlay", ws, sessionId, o, NoFields))
       /\ heap' = IF o # 0 THEN [heap EXCEPT ![o].paused = paused] ELSE heap
       /\ step' = Step(id, "setPaused", o, {"paused"})
       /\ UNCHANGED <<clock, sessions, tasks, sessionClients, clientSessions, connOpen,
                      streams, emitted, calls, genCount, env, vision, timers, loops, vlog>>

\* PauseGate that never holds a fragment back
PauseGateNever(session) == FALSE

\* handleChunk's return for a paused session
PauseGate(session) == session.paused

\* handleChunk's throttle
ChunkThrottleSkip(timeDelta, charDelta) ==
    timeDelta < SUMMARY_INTERVAL_MS /\ charDelta < SUMMARY_CHARS

\* a transcript_chunk message arrives on ws: handleChunk up to its await
handleChunk(ws, sessionId, text, speaker, t0_ms, t1_ms) ==
    LET id == nmsgs + 1
        o == Get(sessionId)
    IN /\ connOpen[ws]
       /\ inbox' = Append(inbox, Msg("transcript_chunk", ws, sessionId, o, NoFields))
       /\ IF o = 0
          THEN NotFound(id, "handleChunk", sessionId, ws)
          ELSE LET session == heap[o]
                   chunk == [text |-> text, speaker |-> speaker, t0_ms |-> t0_ms,
                             t1_ms |-> t1_ms, receivedAt |-> clock]
                   buffer == session.buffer \o Line(chunk) \o Str("\n", 1)
                   now == clock
                   charDelta == StrLen(buffer) - session.lastSummaryChars
                   timeDelta == now - session.lastSummaryAt
               IN /\ heap' = [heap EXCEPT ![o].chunks = Append(@, chunk),
                                          ![o].buffer = buffer]
                  /\ step' = Step(id, "handleChunk", o, {"chunks", "buffer"})
                  /\ emitted' = emitted
                  /\ IF PauseGate(session) \/ ChunkThrottleSkip(timeDelta, charDelta)
                     THEN UNCHANGED <<tasks, calls>>
                     ELSE /\ calls' = Append(calls,
                                 Call("generateRollingSummary", sessionId, o, id,
                                      Slice(buffer, 0 - env.maxRollingChars)))
                          /\ tasks' = tasks \cup {Task(id, "chunk", "generateRollingSummary",
                                                       ws, sessionId, o, now, chunk, TRUE)}
       /\ UNCHANGED <<clock, sessions, sessionClients, clientSessions, connOpen, streams,
                      genCount, env, vision, timers, loops, vlog>>

\* gemini.generateRollingSummary returns `summary`: the rest of handleChunk
ResumeGenerateRolling(t, summary) ==
    LET session == heap[t.obj]
        now == t.now
        confidence == clamp(summary.confidence, 0, 100)
        overlay == [topic_line |-> summary.topic_line,
                    intent_tags |-> summary.intent_tags,
                    uncertainty_notes |-> summary.uncertainty_notes,
                    confidence |-> confidence,
                    last_updated_ms |-> now]
    IN /\ t \in tasks /\ t.pc = "generateRollingSummary"
       /\ tasks' = tasks \ {t}
       /\ heap' = [heap EXCEPT ![t.obj].overlays = Append(@, overlay),
                               ![t.obj].lastSummaryAt = now,
                               ![t.obj].lastSummaryChars = StrLen(session.buffer)]
       /\ emitted' = Append(emitted,
                            Event("overlay_update", session.sessionId, "", t.id, t.obj, now,
                                  summary.intent_tags, sendToSession(session.sessionId)))
       /\ step' = Step(t.id, "generateRollingSummary.return", t.obj,
                       {"overlays", "lastSummaryAt", "lastSummaryChars"})
       /\ UNCHANGED <<clock, sessions, sessionClients, clientSessions, connOpen, streams,
                      calls, inbox, genCount, env, vision, timers, loops, vlog>>

\* the step received a start_session for id
StartedNow(id) ==
    /\ Len(inbox') = Len(inbox) + 1
    /\ inbox'[Len(inbox')].type = "start_session"
    /\ inbox'[Len(inbox')].sessionId = id

\* the step ran store.remove(id) to its end
RemovedNow(id) ==
    /\ step'.kind \in {"send.return", "send.throw"}
    /\ step'.task \in {t.id : t \in tasks}
    /\ inbox[step'.task].sessionId = id

\* get(id) after the step: a session exactly when the step started id, or get(id)
\* gave one before and the step did not remove id; the session is the same record
\* as long as it stays
RegistryStep ==
    \A id \in AllIds :
        /\ MapHas(sessions', id)
           <=> (StartedNow(id) \/ (MapHas(sessions, id) /\ ~RemovedNow(id)))
        /\ MapHas(sessions, id) /\ MapHas(sessions', id) => sessions'[id] = sessions[id]

\* SessionStore.list(): the values of the Map
list == {sessions[id] : id \in DOMAIN sessions}

\* list() holds the session of every registered identifier, and each once
ListExact ==
    /\ Cardinality(list) = Cardinality(DOMAIN sessions)
    /\ \A id \in DOMAIN sessions : heap[Get(id)].sessionId = id
    /\ \A o \in list : Get(heap[o].sessionId) = o

\* C26: in every reachable state get(id) returns a session if and only if a start
\* for id has happened and no removal of id has happened since, and list() returns
\* exactly those sessions, each once.
C26_RegistryMatchesHistory ==
    /\ DOMAIN sessions = {}
    /\ [][RegistryStep]_vars
    /\ []ListExact

\* s1 was started and then removed while s2, started as well, is still registered
C26_Witness ==
    /\ step.kind = "send.return"
    /\ inbox[step.task].sessionId = "s1"
    /\ Get("s1") = 0
    /\ Get("s2") # 0
    /\ list = {Get("s2")}

----------------------------------------------------------------------------
(* SpecOverlay: one client, one session; a rollingSummary call is answered by the
   GeminiAdapter for every kind of backend response, or by a gateway that returns
   summaries with any confidence *)

\* objects the backend may answer with that RollingSchema rejects
ManyTags ==
    [topic_line |-> Text("Much"), confidence |-> 50, uncertainty_notes |-> <<>>,
     intent_tags |-> <<"planning", "feedback", "debate", "support">>]
ManyNotes ==
    [topic_line |-> Text("Vague"), intent_tags |-> <<"venting">>, confidence |-> 50,
     uncertainty_notes |-> <<Text("One"), Text("Two"), Text("Three")>>]
Slang ==
    [topic_line |-> Text("Slang"), intent_tags |-> <<"gossip">>, confidence |-> 50,
     uncertainty_notes |-> <<>>]

\* summaries of a gateway that keeps to its result type but not to the range of
\* confidence
Doubtful ==
    [topic_line |-> Text("Doubt"), intent_tags |-> <<"smalltalk">>, confidence |-> 0 - 20,
     uncertainty_notes |-> <<Text("One"), Text("Two")>>]

NextOverlay ==
    \/ /\ nmsgs = 0
       /\ RecvStart("c1", "s1", Undefined, Undefined, Undefined, Undefined, TRUE)
    \/ /\ nmsgs > 0 /\ nmsgs < MaxOverlayEvents
       /\ \E text \in {Word(9), Teach} :
             RecvTranscript("c1", "s1", text, Undefined, NoNumber, NoNumber)
    \/ \E t \in tasks,
          response \in RollingResponses
                       \cup {Response("object", ManyTags), Response("object", ManyNotes),
                             Response("object", Slang)} :
          GeminiRolling(t, response)
    \/ \E t \in tasks, summary \in {Instruction, Doubtful} : ResumeRolling(t, summary)

SpecOverlay == InitGemini /\ [][NextOverlay]_vars

\* confidence within [0, 1], one to three tags of the vocabulary, at most two notes
WellFormed(confidence, intent_tags, uncertainty_notes) ==
    /\ confidence >= 0 /\ confidence <= 100
    /\ Len(intent_tags) >= 1 /\ Len(intent_tags) <= 3
    /\ \A i \in 1..Len(intent_tags) : intent_tags[i] \in IntentTags
    /\ Len(uncertainty_notes) <= 2

\* C27: every overlay appended to a session's history and emitted has a confidence
\* within [0,1], whatever confidence the gateway returned, between 1 and 3 intent
\* tags of the closed vocabulary and at most 2 uncertainty notes.
C27_OverlayWellFormed ==
    /\ \A o \in 1..Len(heap) : \A i \in 1..Len(heap[o].overlays) :
          LET overlay == heap[o].overlays[i]
          IN WellFormed(overlay.confidence, overlay.intent_tags, overlay.uncertainty_notes)
    /\ \A j \in SummaryOverlays :
          \E i \in 1..Len(heap[emitted[j].obj].overlays) :
              LET overlay == heap[emitted[j].obj].overlays[i]
              IN /\ overlay.intent_tags = emitted[j].tags
                 /\ overlay.last_updated_ms = emitted[j].ts
                 /\ WellFormed(overlay.confidence, emitted[j].tags,
                               overlay.uncertainty_notes)

\* the history holds an overlay made from a summary of confidence 1.2, one made from
\* a summary of confidence -0.2 and one the gateway built itself after the backend
\* answered with four tags
C27_Witness ==
    \E o \in 1..Len(heap) :
        LET overlays == heap[o].overlays
        IN /\ \E i \in 1..Len(overlays) :
                 overlays[i].topic_line = Instruction.topic_line /\ overlays[i].confidence = 100
           /\ \E i \in 1..Len(overlays) :
                 overlays[i].topic_line = Doubtful.topic_line /\ overlays[i].confidence = 0
           /\ \E i \in 1..Len(overlays) :
                 overlays[i].uncertainty_notes = <<Text("Limited context.")>>

----------------------------------------------------------------------------
(* SpecGreeting: a server running either hub (the one of part_002 over the
   SessionStore, or the one of ws/hub.ts over the processor's own sessions) with
   a Mongo store; two clients start sessions with and without a sessionId and send
   fragments for the identifiers they know *)

\* the records are those of SessionStore.startSession: the hub of part_002 runs
StoreRecords == \A o \in 1..Len(heap) : "stream" \in DOMAIN heap[o]

\* the records are those of the processor's startSession: the hub of ws/hub.ts runs
ProcessorRecords == \A o \in 1..Len(heap) : "paused" \in DOMAIN heap[o]

\* the identifiers a client can name: the one it chose and those it was sent
KnownIds == {"s1"} \cup {emitted[i].sessionId : i \in {j \in 1..Len(emitted) : emitted[j].to # {}}}

NextGreeting ==
    \/ /\ nmsgs < MaxGreetingEvents /\ StoreRecords
       /\ \E ws \in Conns, sessionId \in {Undefined, "s1"},
             prefs \in {<<Undefined, Undefined>>, <<"u1", "mongo">>} :
             RecvStart(ws, sessionId, prefs[1], Undefined, prefs[2], Undefined, TRUE)
    \/ \E t \in tasks : ResumeOnStart(t, TRUE)
    \/ /\ nmsgs < MaxGreetingEvents /\ StoreRecords /\ heap # <<>>
       /\ \E sessionId \in KnownIds :
             RecvTranscript("c1", sessionId, Word(9), Undefined, NoNumber, NoNumber)
    \/ \E t \in tasks : ResumeRolling(t, Planning)
    \/ /\ nmsgs < MaxGreetingEvents /\ ProcessorRecords
       /\ \E ws \in Conns, sessionId \in {Undefined, "s1"} :
             StartSessionCase(ws, sessionId, Undefined, Undefined, Undefined)
    \/ /\ nmsgs < MaxGreetingEvents /\ ProcessorRecords /\ heap # <<>>
       /\ \E sessionId \in KnownIds : handleChunk("c1", sessionId, Word(9), Undefined, 0, 0)
    \/ \E t \in tasks : ResumeGenerateRolling(t, Planning)

SpecGreeting == InitMongo /\ [][NextGreeting]_vars

\* the start_session messages received so far
Starts == {k \in 1..Len(inbox) : inbox[k].type = "start_session"}

\* the overlay_update events the start_session invocation k sent itself
Greetings(k) ==
    {j \in 1..Len(emitted) : emitted[j].cause = k /\ emitted[j].type = "overlay_update"}

\* invocation k has run to its end
Finished(k) == \A t \in tasks : t.id # k

\* what has been sent for the start_session messages received so far
GreetingSent ==
    \A k \in Starts :
        LET sid == inbox[k].sessionId
        IN IF inbox[k].fields.sessionId = Undefined
           THEN /\ ~Finished(k) => \A i \in 1..Len(emitted) : emitted[i].sessionId # sid
                /\ Finished(k)
                   => \E j \in Greetings(k) :
                         /\ Greetings(k) = {j}
                         /\ emitted[j].sessionId = sid
                         /\ emitted[j].to = {inbox[k].ws}
                         /\ \A i \in 1..(j - 1) : emitted[i].sessionId # sid
           ELSE Greetings(k) = {}

\* a start_session without sessionId registers a new record under an identifier that
\* was not in the registry and subscribes the sender to it
GeneratedIsFresh ==
    (Len(inbox') = Len(inbox) + 1 /\ inbox'[Len(inbox')].type = "start_session"
     /\ inbox'[Len(inbox')].fields.sessionId = Undefined)
    => LET m == inbox'[Len(inbox')]
       IN /\ ~MapHas(sessions, m.sessionId)
          /\ MapHas(sessions', m.sessionId)
          /\ sessions'[m.sessionId] = Len(heap) + 1
          /\ heap'[sessions'[m.sessionId]].sessionId = m.sessionId
          /\ m.ws \in sessionClients'[m.sessionId]

\* C25: a start_session without sessionId creates a new session under a generated
\* identifier that differs from every identifier in the registry, subscribes the
\* sending connection and sends it an overlay_update carrying the generated
\* sessionId before any other event for that session; a start_session with a
\* sessionId is answered with no such overlay_update.
C25_GeneratedIdGreeting == []GreetingSent /\ [][GeneratedIsFresh]_vars

\* both kinds of start have been answered, a second generated session has been
\* created while the first exists, and an event has followed the greeting of a
\* generated session
C25_Witness ==
    /\ \E k \in Starts : inbox[k].fields.sessionId # Undefined /\ Finished(k)
    /\ \E k \in Starts : inbox[k].sessionId = GenIds[2] /\ Finished(k)
    /\ MapHas(sessions, GenIds[1])
    /\ \E j \in 1..Len(emitted) :
          /\ emitted[j].sessionId = GenIds[1]
          /\ \E k \in Starts : emitted[j].cause > k /\ inbox[k].sessionId = GenIds[1]

----------------------------------------------------------------------------
(* SpecPause: one client starting sessions (named "s1" or with a generated
   identifier), pausing and resuming "s1" and the unknown "s2", and sending
   fragments of 10 and 600 characters for "s1" while time passes *)

NextPause ==
    \/ /\ nmsgs < MaxPauseEvents
       /\ \E sessionId \in {Undefined, "s1"} :
             StartSessionCase("c1", sessionId, Undefined, Undefined, Undefined)
    \/ /\ nmsgs < MaxPauseEvents
       /\ \E sessionId \in SessionIds, paused \in BOOLEAN :
             PauseOverlayCase("c1", sessionId, paused)
    \/ /\ nmsgs < MaxPauseEvents
       /\ \E n \in {9, 599} : handleChunk("c1", "s1", Word(n), Undefined, 0, 0)
    \/ \E t \in tasks : ResumeGenerateRolling(t, Planning)
    \/ clock + SUMMARY_INTERVAL_MS <= MaxPauseClock /\ Tick(SUMMARY_INTERVAL_MS)

SpecPause == InitBare /\ [][NextPause]_vars

\* the step handled a fragment for a known session
ChunkStep == step'.kind = "handleChunk" /\ step'.obj # 0 /\ Len(inbox') = Len(inbox) + 1

\* the step ran setPaused for an identifier that names no session
UnknownPauseStep ==
    step'.kind = "setPaused" /\ step'.obj = 0 /\ Len(inbox') = Len(inbox) + 1

\* the throttle lets a summary through for the session as the step leaves it
ThrottleFires(o) ==
    \/ clock - heap[o].lastSummaryAt >= SUMMARY_INTERVAL_MS
    \/ StrLen(heap'[o].buffer) - heap[o].lastSummaryChars >= SUMMARY_CHARS

----------------------------------------------------------------------------
(* SpecDelivery: two clients starting "s1" (in mock or in Deepgram mode, with no
   Deepgram key configured), sending fragments and audio for "s1" and the unknown
   "s2", ending "s1" and closing their sockets, the gateway answering in any order *)

NextDelivery ==
    \/ /\ nmsgs < MaxDeliveryEvents
       /\ \E ws \in Conns, sttMode \in {Undefined, "deepgram"} :
             RecvStart(ws, "s1", Undefined, Undefined, Undefined, sttMode, TRUE)
    \/ /\ nmsgs < MaxDeliveryEvents
       /\ \E ws \in Conns, sessionId \in SessionIds :
             RecvTranscript(ws, sessionId, Word(9), Undefined, NoNumber, NoNumber)
    \/ \E t \in tasks : ResumeRolling(t, Instruction)
    \/ /\ nmsgs < MaxDeliveryEvents
       /\ \E ws \in Conns, sessionId \in SessionIds : RecvAudio(ws, sessionId)
    \/ /\ nmsgs < MaxDeliveryEvents
       /\ \E ws \in Conns : RecvEnd(ws, "s1")
    \/ \E t \in tasks : ResumeDebrief(t, Wrapup)
    \/ \E t \in tasks : ResumeMetrics(t, TRUE)
    \/ \E ws \in Conns : Close(ws)

SpecDelivery == InitBare /\ [][NextDelivery]_vars

\* ws is attached to sessionId as the step ends: it has sent a start_session for it
\* and has not closed
Attached(ws, sessionId) ==
    /\ connOpen'[ws]
    /\ \E k \in 1..Len(inbox') :
          /\ inbox'[k].type = "start_session"
          /\ inbox'[k].ws = ws
          /\ inbox'[k].sessionId = sessionId

\* the event went to the connections attached to its session and to no other
ToAttached(e) == e.to = {ws \in Conns : Attached(ws, e.sessionId)}

\* the event is one the processor handed to an emitter of the hub: the hub writes
\* the other ones itself to the socket whose start_session or audio_chunk it is
\* handling (the greeting and the stt errors)
Emitted(e) == inbox'[e.cause].type \notin {"start_session", "audio_chunk"}

\* C28: an outbound event the processor hands to the hub's emitters for session S
\* is delivered to every open connection that is attached to S at that moment
\* (it sent a start_session for S and has not closed) and to no other connection.
C28_EmitterEventsToAttached ==
    [][\A j \in 1..Len(NewEvents) :
          Emitted(NewEvents[j]) => ToAttached(NewEvents[j])]_vars

\* an overlay has reached two attached connections, another event of the same
\* session reached only one after the other closed, and an event for a session
\* nobody is attached to reached nobody
C28_Witness ==
    /\ \E j \in 1..Len(emitted) :
          emitted[j].type = "overlay_update" /\ emitted[j].to = Conns
    /\ \E j \in 1..Len(emitted) :
          /\ emitted[j].sessionId = "s1"
          /\ inbox[emitted[j].cause].type \in {"transcript_chunk", "end_session"}
          /\ Cardinality(emitted[j].to) = 1
    /\ \E ws \in Conns : ~connOpen[ws]

----------------------------------------------------------------------------
(* Consecutive summaries of one session, under SpecThrottle *)

\* the rollingSummary calls made so far for the session object o
RollingCallsOf(o) ==
    {i \in 1..Len(calls) : calls[i].op = "rollingSummary" /\ calls[i].obj = o}

\* the position in session.chunks of the fragment that message k brought
ChunkIndex(o, k) ==
    Cardinality({i \in 1..k : inbox'[i].type = "transcript_chunk" /\ inbox'[i].obj = o})

\* the length of session.buffer once the first n fragments were appended
RECURSIVE BufferLen(_, _)
BufferLen(chunks, n) ==
    IF n = 0 THEN 0 ELSE BufferLen(chunks, n - 1) + StrLen(Line(chunks[n])) + 1

\* the handler of message k took `now` as it appended its fragment
InvokedAt(o, k) == heap'[o].chunks[ChunkIndex(o, k)].receivedAt

\* C29: when rollingSummary is invoked for a session that already had an invocation,
\* at least minIntervalMs have elapsed since the previous invocation or at least
\* minCharsDelta characters have been appended to the buffer since it, also when
\* the previous call has not returned yet.
C29_ConsecutiveSummariesApart ==
    [][(FragmentStep /\ Triggers /\ RollingCallsOf(step'.obj) # {}) =>
         LET o == step'.obj
             k == Len(inbox')
             p == calls[SetMax(RollingCallsOf(o))].task
             chunks == heap'[o].chunks
         IN \/ InvokedAt(o, k) - InvokedAt(o, p) >= summaryIntervalMs
            \/ BufferLen(chunks, ChunkIndex(o, k)) - BufferLen(chunks, ChunkIndex(o, p))
                   >= summaryChars]_vars

----------------------------------------------------------------------------
(* A summary that returns after its session was removed, under Spec *)

\* the session the suspended handler works on is no longer in the registry
Unregistered(t) == Get(t.sessionId) # t.obj

\* the step resumes handler t
Resumes(t) == t \in tasks /\ t \notin tasks' /\ step'.task = t.id

\* C30: when rollingSummary returns for a session that was ended and removed
\* meanwhile, the suspended transcript handler runs to its end without raising:
\* it records and emits the overlay on the session object it holds, emits no
\* error and leaves the registry as it is.
C30_LateSummaryCompletes ==
    [][\A t \in tasks :
          (t.pc = "rollingSummary" /\ Unregistered(t) /\ Resumes(t)) =>
             /\ step'.kind = "rollingSummary.return"
             /\ Len(heap'[t.obj].overlays) = Len(heap[t.obj].overlays) + 1
             /\ Len(NewEvents) >= 1
             /\ \A j \in 1..Len(NewEvents) :
                   NewEvents[j].type \in {"overlay_update", "tool_event"}
             /\ sessions' = sessions]_vars

\* a session with a debrief is out of the registry and the last step resumed a
\* transcript handler of it, whose overlay was recorded after the debrief was sent
C30_Witness ==
    /\ step.kind = "rollingSummary.return"
    /\ ~MapHas(sessions, heap[step.obj].sessionId)
    /\ heap[step.obj].debrief # <<>>
    /\ heap[step.obj].overlays # <<>>
    /\ emitted[Len(emitted)].cause = step.task
    /\ \E j \in 1..Len(emitted) :
          emitted[j].type = "debrief" /\ emitted[j].obj = step.obj

----------------------------------------------------------------------------
(* Overlays and the end of a session, under Spec *)

\* the debrief of session object o has been emitted
DebriefSent(o) ==
    \E j \in 1..Len(emitted) : emitted[j].type = "debrief" /\ emitted[j].obj = o

\* C31: no overlay_update and no tool_event is emitted for a session once its
\* debrief has been emitted or once it has been removed from the registry.
C31_NoOverlayAfterEnd ==
    [][\A j \in 1..Len(NewEvents) :
          LET e == NewEvents[j]
          IN (e.type \in {"overlay_update", "tool_event"} /\ e.obj # 0) =>
                /\ ~DebriefSent(e.obj)
                /\ Get(e.sessionId) = e.obj]_vars

----------------------------------------------------------------------------
(* The vision gate and the transcript throttle, under Spec *)

\* the step belongs to the handling of a vision frame
VisionStep ==
    step'.kind \in {"handleVisionFrame", "visionSummary.return", "visionSummary.throw"}

\* the step belongs to the handling of a transcript fragment
TranscriptStep == step'.kind \in {"handleTranscript", "rollingSummary.return"}

\* the step starts a visionSummary call for the frame it handles
Processes ==
    /\ Len(calls') = Len(calls) + 1
    /\ calls'[Len(calls')].op = "visionSummary"
    /\ calls'[Len(calls')].task = Len(inbox')

\* C32: a vision frame for an existing session is processed exactly when
\* now - lastVisionAt >= visionIntervalMs, whatever the buffer and the throttle
\* fields are; handling a vision frame leaves buffer, lastSummaryAt and
\* lastSummaryChars of every session unchanged, and handling a transcript fragment
\* leaves lastVisionAt and the vision history of every session unchanged.
C32_GateAndThrottleIndependent ==
    [][/\ (step'.kind = "handleVisionFrame" /\ step'.obj # 0 /\ Len(inbox') = Len(inbox) + 1)
          => (Processes <=> clock - heap[step'.obj].lastVisionAt >= visionIntervalMs)
       /\ VisionStep
          => \A o \in 1..Len(heap) :
                /\ heap'[o].buffer = heap[o].buffer
                /\ heap'[o].lastSummaryAt = heap[o].lastSummaryAt
                /\ heap'[o].lastSummaryChars = heap[o].lastSummaryChars
       /\ TranscriptStep
          => \A o \in 1..Len(heap) :
                /\ heap'[o].lastVisionAt = heap[o].lastVisionAt
                /\ heap'[o].visionUpdates = heap[o].visionUpdates]_vars

\* a frame was let through and summarised at the very time of the session's last
\* overlay, where the transcript throttle holds fragments back
C32_Witness ==
    /\ step.kind = "visionSummary.return"
    /\ heap[step.obj].visionUpdates # <<>>
    /\ heap[step.obj].overlays # <<>>
    /\ heap[step.obj].lastSummaryAt = heap[step.obj].lastVisionAt
    /\ heap[step.obj].lastSummaryChars = StrLen(heap[step.obj].buffer)

\* a frame was held back by the gate on a session that never had a summary
C32_FrameHeldBack ==
    /\ step.kind = "handleVisionFrame" /\ step.obj # 0
    /\ heap[step.obj].lastVisionAt = clock
    /\ heap[step.obj].lastSummaryAt = 0
    /\ \A i \in 1..Len(calls) : calls[i].task # step.task

----------------------------------------------------------------------------
(* Consecutive vision summaries of one session, under Spec *)

\* the visionSummary calls made so far for the session object o
VisionCallsOf(o) ==
    {i \in 1..Len(calls) : calls[i].op = "visionSummary" /\ calls[i].obj = o}

\* C33: any two visionSummary invocations for the same session are at least
\* visionIntervalMs apart, also when the later frame arrived while the earlier
\* call was still outstanding.
C33_VisionCallsApart ==
    \A o \in 1..Len(heap) :
        \A i, j \in VisionCallsOf(o) :
            i < j => calls[j].at - calls[i].at >= visionIntervalMs

\* a second visionSummary was started for a session while its first one was still
\* outstanding
C33_Witness ==
    \E o \in 1..Len(heap) :
        /\ Cardinality(VisionCallsOf(o)) = 2
        /\ \A i \in VisionCallsOf(o) :
              \E t \in tasks : t.id = calls[i].task /\ t.pc = "visionSummary"

----------------------------------------------------------------------------
(* VisionService and GeminiVisionClient *)

\* the hub and the processor are not involved
HubIdle ==
    UNCHANGED <<clock, sessions, heap, tasks, sessionClients, clientSessions, connOpen,
                streams, emitted, calls, inbox, genCount, env, step>>

\* an entry of the log: what happened, in which invocation, with which snapshot or
\* backend response
VLog(op, id, data) == [op |-> op, id |-> id, data |-> data]

\* the number of log entries of the kinds `ops`
Count(ops) == Cardinality({i \in 1..Len(vlog) : vlog[i].op \in ops})

\* an invocation suspended at an await; src is the frame source it works with
Loop(id, kind, pc, src) == [id |-> id, kind |-> kind, pc |-> pc, src |-> src]

\* what model.generateContent can answer: ok = FALSE is a rejected request
Content(ok, env_label, notes) == [ok |-> ok, env_label |-> env_label, notes |-> notes]
Plain == Content(TRUE, "room", <<>>)
Hall == Content(TRUE, "hall", <<"dim", "far">>)
Unlabelled == Content(TRUE, "", <<>>)
Chatty == Content(TRUE, "room", <<"dim", "far", "busy">>)
Failure == Content(FALSE, "", <<>>)
Contents == {Plain, Hall, Unlabelled, Chatty, Failure}

\* VisionSchema.parse
VisionSchema(response) == response.env_label # "" /\ Len(response.notes) <= 2

\* an attempt that takes whatever the backend sent for a snapshot
attemptOkUnparsed(response) == response.ok

\* the attempt of sendImage resolves (else it rejects)
attemptOk(response) == response.ok /\ VisionSchema(response)

\* toSnapshot
toSnapshot(parsed) ==
    [env_label |-> parsed.env_label,
     notes |-> SubSeq(parsed.notes, 1, IF Len(parsed.notes) < 2 THEN Len(parsed.notes) ELSE 2)]

\* mockSnapshot
mockSnapshot(mockIndex) ==
    [env_label |-> <<"study room", "classroom", "office">>[(mockIndex % 3) + 1],
     notes |-> <<"mock_mode">>]

\* Array.from(new Set(notes)): the first occurrence of each note, in order
RECURSIVE uniqueNotes(_)
uniqueNotes(notes) ==
    IF notes = <<>> THEN <<>>
    ELSE LET front == uniqueNotes(SubSeq(notes, 1, Len(notes) - 1))
             last == notes[Len(notes)]
         IN IF \E i \in 1..Len(front) : front[i] = last THEN front ELSE Append(front, last)

\* dedupeNotes: Array.from(set).slice(0, 2)
dedupeNotes(notes) ==
    LET set == uniqueNotes(notes)
    IN SubSeq(set, 1, IF Len(set) < 2 THEN Len(set) ELSE 2)

\* the tail of loop: this.timer = setTimeout(loop, interval), with the service
\* fields, the timers and the log as the tick leaves them
Reschedule(service, timersIn, log) ==
    /\ vision' = [service EXCEPT !.timer = Len(timersIn) + 1]
    /\ timers' = Append(timersIn, "pending")
    /\ vlog' = log

\* the try branch of loop once a snapshot is there: keep it, emit it
Emit(id, snapshot, timersIn, log) ==
    Reschedule([vision EXCEPT !.latest = snapshot], timersIn,
               Append(log, VLog("snapshot", id, snapshot)))

\* the catch branch of loop
Catch(id, timersIn, log) ==
    LET failed == Append(log, VLog("tick.failed", id, vision.latest))
        degraded == [vision.latest EXCEPT
                        !.notes = dedupeNotes(Append(@, "Vision degraded."))]
    IN IF vision.latest # NoSnapshot
       THEN Reschedule([vision EXCEPT !.latest = degraded], timersIn,
                       Append(failed, VLog("snapshot", id, degraded)))
       ELSE Reschedule(vision, timersIn, failed)

\* VisionService.start() is called
start ==
    LET id == Len(vlog) + 1
        called == Append(vlog, VLog("start", id, NoSnapshot))
    IN /\ Count({"start", "stop", "loop"}) < MaxVisionCalls
       /\ IF vision.running
          THEN /\ vlog' = Append(called, VLog("start.return", id, NoSnapshot))
               /\ UNCHANGED <<vision, timers, loops>>
          ELSE IF vision.mode = "gemini" /\ vision.geminiApiKey
          THEN /\ vision' = [vision EXCEPT !.running = TRUE, !.gemini = TRUE,
                                            !.frameSource = id]
               /\ loops' = loops \cup {Loop(id, "start", "frameSource.start", id)}
               /\ vlog' = called
               /\ timers' = timers
          ELSE /\ Reschedule([vision EXCEPT !.running = TRUE, !.mode = "mock"], timers,
                             Append(called, VLog("start.return", id, NoSnapshot)))
               /\ loops' = loops
       /\ HubIdle

\* frameSource.start() returns (ok) or throws: start() defines loop and sets the
\* first timeout
ResumeStart(l, ok) ==
    /\ l \in loops /\ l.pc = "frameSource.start"
    /\ loops' = loops \ {l}
    /\ Reschedule([vision EXCEPT !.mode = IF ok THEN @ ELSE "mock"], timers,
                  Append(vlog, VLog("start.return", l.id, NoSnapshot)))
    /\ HubIdle

\* the timeout `handle` expires: loop runs up to its await, or to its end
loop(handle) ==
    LET id == Len(vlog) + 1
        fired == [timers EXCEPT ![handle] = "fired"]
        ticked == Append(vlog, VLog("loop", id, NoSnapshot))
    IN /\ handle \in 1..Len(timers) /\ timers[handle] = "pending"
       /\ Count({"start", "stop", "loop"}) < MaxVisionCalls
       /\ IF ~vision.running
          THEN /\ timers' = fired
               /\ vlog' = Append(ticked, VLog("loop.exit", id, NoSnapshot))
               /\ UNCHANGED <<vision, loops>>
          ELSE IF vision.mode = "mock"
          THEN /\ Emit(id, mockSnapshot(vision.mockIndex), fired, ticked)
               /\ loops' = loops
          ELSE IF vision.frameSource = 0 \/ ~vision.gemini
          THEN /\ Reschedule(vision, fired, ticked)
               /\ loops' = loops
          ELSE /\ timers' = fired
               /\ loops' = loops \cup {Loop(id, "loop", "capture", vision.frameSource)}
               /\ vlog' = Append(ticked, VLog("capture", id, NoSnapshot))
               /\ vision' = vision
       /\ HubIdle

\* frameSource.captureJpegBuffer() returns (ok) or throws
ResumeCapture(l, ok) ==
    /\ l \in loops /\ l.pc = "capture"
    /\ IF ok
       THEN /\ loops' = (loops \ {l}) \cup {[l EXCEPT !.pc = "attempt1"]}
            /\ vlog' = vlog \o <<VLog("sendImage", l.id, [apiKey |-> vision.geminiApiKey]),
                                  VLog("attempt", l.id, NoSnapshot)>>
            /\ UNCHANGED <<vision, timers>>
       ELSE /\ loops' = loops \ {l}
            /\ Catch(l.id, timers, vlog)
    /\ HubIdle

\* sendImage is called on a GeminiVisionClient built with or without an API key
sendImage(apiKey) ==
    LET id == Len(vlog) + 1
        called == Append(vlog, VLog("sendImage", id, [apiKey |-> apiKey]))
    IN /\ Count({"sendImage"}) < MaxSendCalls
       /\ IF ~apiKey
          THEN /\ vlog' = Append(called, VLog("sendImage.throw", id, NoSnapshot))
               /\ loops' = loops
          ELSE /\ vlog' = Append(called, VLog("attempt", id, NoSnapshot))
               /\ loops' = loops \cup {Loop(id, "sendImage", "attempt1", 0)}
       /\ UNCHANGED <<vision, timers>>
       /\ HubIdle

\* model.generateContent answers an attempt of sendImage with `response`
ResumeAttempt(l, response) ==
    LET answered == Append(vlog, VLog("response", l.id, response))
        snapshot == toSnapshot(response)
        returned == Append(answered, VLog("sendImage.return", l.id, snapshot))
        thrown == Append(answered, VLog("sendImage.throw", l.id, NoSnapshot))
    IN /\ l \in loops /\ l.pc \in {"attempt1", "attempt2"}
       /\ IF attemptOk(response)
          THEN /\ loops' = loops \ {l}
               /\ IF l.kind = "loop" THEN Emit(l.id, snapshot, timers, returned)
                  ELSE vlog' = returned /\ UNCHANGED <<vision, timers>>
          ELSE IF l.pc = "attempt1"
          THEN /\ loops' = (loops \ {l}) \cup {[l EXCEPT !.pc = "attempt2"]}
               /\ vlog' = Append(answered, VLog("attempt", l.id, NoSnapshot))
               /\ UNCHANGED <<vision, timers>>
          ELSE /\ loops' = loops \ {l}
               /\ IF l.kind = "loop" THEN Catch(l.id, timers, thrown)
                  ELSE vlog' = thrown /\ UNCHANGED <<vision, timers>>
       /\ HubIdle

\* VisionService.stop() is called
stop ==
    LET id == Len(vlog) + 1
        called == Append(vlog, VLog("stop", id, NoSnapshot))
        cleared == IF vision.timer # 0 /\ timers[vision.timer] = "pending"
                   THEN [timers EXCEPT ![vision.timer] = "cleared"] ELSE timers
    IN /\ Count({"start", "stop", "loop"}) < MaxVisionCalls
       /\ vision' = [vision EXCEPT !.running = FALSE, !.timer = 0]
       /\ timers' = cleared
       /\ IF vision.frameSource # 0
          THEN /\ loops' = loops \cup {Loop(id, "stop", "frameSource.stop",
                                             vision.frameSource)}
               /\ vlog' = called
          ELSE /\ loops' = loops
               /\ vlog' = Append(called, VLog("stop.return", id, NoSnapshot))
       /\ HubIdle

\* frameSource.stop() returns: stop() forgets the frame source and returns
ResumeStop(l) ==
    /\ l \in loops /\ l.pc = "frameSource.stop"
    /\ loops' = loops \ {l}
    /\ vision' = [vision EXCEPT !.frameSource = 0]
    /\ vlog' = Append(vlog, VLog("stop.return", l.id, NoSnapshot))
    /\ timers' = timers
    /\ HubIdle

\* a VisionService in gemini mode, started and stopped at any moment, its frame
\* source and the backend answering or failing in any order
NextVision ==
    \/ start
    \/ \E l \in loops, ok \in BOOLEAN : ResumeStart(l, ok)
    \/ \E handle \in 1..Len(timers) : loop(handle)
    \/ \E l \in loops, ok \in BOOLEAN : ResumeCapture(l, ok)
    \/ \E l \in loops : l.kind = "loop" /\ \E response \in {Hall, Failure} :
          ResumeAttempt(l, response)
    \/ stop
    \/ \E l \in loops : ResumeStop(l)

SpecVision == InitBare /\ [][NextVision]_vars

\* callers of sendImage on clients with and without an API key, the backend
\* answering each attempt in any way
NextSendImage ==
    \/ \E apiKey \in BOOLEAN : sendImage(apiKey)
    \/ \E l \in loops, response \in Contents : ResumeAttempt(l, response)

SpecSendImage == InitBare /\ [][NextSendImage]_vars

\* the snapshots the service emitted from the catch branch of a tick
DegradedSnapshots ==
    {i \in 2..Len(vlog) : /\ vlog[i].op = "snapshot"
                          /\ vlog[i - 1].op = "tick.failed"
                          /\ vlog[i - 1].id = vlog[i].id}

\* the snapshot carries the degraded marker among its notes
Marked(snapshot) ==
    \E n \in 1..Len(snapshot.notes) : snapshot.notes[n] = "Vision degraded."

\* C34: every snapshot emitted for a failed tick carries the degraded marker among
\* its notes, whatever notes the last known snapshot had.
C34_DegradedIsMarked == \A i \in DegradedSnapshots : Marked(vlog[i].data)

\* before entry i of the log a stop() has returned, and start() has not been called
\* since that stop() was called (the entry vlog[j].id is its call)
Stopped(i) ==
    \E j \in 1..(i - 1) :
        /\ vlog[j].op = "stop.return"
        /\ \A k \in (vlog[j].id + 1)..(i - 1) : vlog[k].op # "start"

\* C36: once stop() has returned, no snapshot is emitted and no capture is started
\* until start() is called again.
C36_QuietAfterStop ==
    \A i \in 1..Len(vlog) : vlog[i].op \in {"snapshot", "capture"} => ~Stopped(i)

\* the tick chains that are alive: timeouts waiting to run loop, and ticks
\* suspended in a capture or a vision call, which set the next timeout when they end
Chains ==
    Cardinality({h \in 1..Len(timers) : timers[h] = "pending"})
        + Cardinality({l \in loops : l.kind = "loop"})

\* C37: whatever start() and stop() calls are made, at most one tick chain is alive
\* at any time.
C37_OneChain == Chains <= 1

----------------------------------------------------------------------------
(* sendImage, under SpecSendImage *)

\* the log entries of kind op that belong to the sendImage call c
EntriesOf(c, op) == {i \in 1..Len(vlog) : vlog[i].op = op /\ vlog[i].id = c}

\* the backend accepted the request and its answer passes VisionSchema
Usable(response) ==
    response.ok /\ response.env_label # "" /\ Len(response.notes) <= 2

\* the call c has returned the snapshot made from `response`
Gave(c, response) ==
    /\ EntriesOf(c, "sendImage.throw") = {}
    /\ \E i \in EntriesOf(c, "sendImage.return") :
          /\ EntriesOf(c, "sendImage.return") = {i}
          /\ vlog[i].data.env_label = response.env_label
          /\ vlog[i].data.notes = response.notes

\* the call c has failed
Threw(c) ==
    /\ EntriesOf(c, "sendImage.return") = {}
    /\ Cardinality(EntriesOf(c, "sendImage.throw")) = 1

\* C38: a sendImage call makes at most two backend attempts; it returns the first
\* attempt's snapshot if that attempt succeeds, otherwise it makes exactly one more
\* attempt and returns that one's snapshot, and it fails only when both attempts
\* fail; on a client without an API key it fails without any attempt.
C38_AtMostOneRetry ==
    \A c \in 1..Len(vlog) :
        vlog[c].op = "sendImage" =>
            LET attempts == Cardinality(EntriesOf(c, "attempt"))
                answers == EntriesOf(c, "response")
                first == vlog[SetMin(answers)].data
                second == vlog[SetMax(answers)].data
            IN /\ attempts <= 2 /\ Cardinality(answers) <= attempts
               /\ ~vlog[c].data.apiKey => attempts = 0 /\ Threw(c)
               /\ vlog[c].data.apiKey =>
                     /\ attempts >= 1
                     /\ answers = {} =>
                           /\ EntriesOf(c, "sendImage.return") = {}
                           /\ EntriesOf(c, "sendImage.throw") = {}
                     /\ (answers # {} /\ Usable(first)) =>
                           attempts = 1 /\ Gave(c, first)
                     /\ (answers # {} /\ ~Usable(first)) => attempts = 2
                     /\ (Cardinality(answers) = 1 /\ ~Usable(first)) =>
                           /\ EntriesOf(c, "sendImage.return") = {}
                           /\ EntriesOf(c, "sendImage.throw") = {}
                     /\ (Cardinality(answers) = 2 /\ Usable(second)) => Gave(c, second)
                     /\ (Cardinality(answers) = 2 /\ ~Usable(second)) => Threw(c)

\* one call returned the snapshot of its second attempt after a first answer the
\* schema rejects, and a call on a client without a key failed at once
C38_Witness ==
    /\ \E c \in 1..Len(vlog) :
          /\ vlog[c].op = "sendImage"
          /\ Cardinality(EntriesOf(c, "response")) = 2
          /\ vlog[SetMin(EntriesOf(c, "response"))].data = Chatty
          /\ Gave(c, Hall)
    /\ \E c \in 1..Len(vlog) :
          vlog[c].op = "sendImage" /\ ~vlog[c].data.apiKey /\ Threw(c)

----------------------------------------------------------------------------
(* The first fragment of a session, under SpecThrottle *)

\* C35: the first transcript fragment handled for a newly created session starts a
\* rollingSummary call, whatever its length and however soon after the start it
\* arrives, and when that call returns an overlay is emitted for the session.
C35_FirstFragmentSummarised ==
    [][/\ (FragmentStep /\ heap[step'.obj].chunks = <<>>) => Triggers
       /\ (step'.kind = "rollingSummary.return" /\ heap[step'.obj].overlays = <<>>) =>
             /\ Len(heap'[step'.obj].overlays) = 1
             /\ \E j \in 1..Len(NewEvents) :
                   /\ NewEvents[j].type = "overlay_update"
                   /\ NewEvents[j].cause = step'.task
                   /\ NewEvents[j].obj = step'.obj]_vars

\* a first fragment of 10 characters, received in the millisecond the session was
\* created, has been summarised and its overlay emitted
C35_Witness ==
    /\ step.kind = "rollingSummary.return"
    /\ Len(heap[step.obj].chunks) = 1
    /\ heap[step.obj].chunks[1].receivedAt = heap[step.obj].createdAt
    /\ StrLen(heap[step.obj].buffer) = 10
    /\ Len(heap[step.obj].overlays) = 1
    /\ emitted[Len(emitted)].type = "overlay_update"
    /\ emitted[Len(emitted)].obj = step.obj

----------------------------------------------------------------------------
(* The two subscriber maps of the hub *)

\* two connections start and end the sessions s1 and s2 and close, in every order
NextSubscribers ==
    \/ /\ nmsgs < MaxSubscriberEvents
       /\ \E ws \in Conns, sessionId \in SessionIds :
             RecvStart(ws, sessionId, Undefined, Undefined, Undefined, Undefined, TRUE)
    \/ /\ nmsgs < MaxSubscriberEvents
       /\ \E ws \in Conns, sessionId \in SessionIds : RecvEnd(ws, sessionId)
    \/ \E t \in tasks : ResumeDebrief(t, Wrapup)
    \/ \E t \in tasks : ResumeMetrics(t, TRUE)
    \/ \E ws \in Conns : Close(ws)

SpecSubscribers == InitBare /\ [][NextSubscribers]_vars

\* ws is in the subscriber set of sessionId
Subscribed(ws, sessionId) ==
    MapHas(sessionClients, sessionId) /\ ws \in sessionClients[sessionId]

\* sessionId is in the session set of ws
Follows(ws, sessionId) ==
    MapHas(clientSessions, ws) /\ sessionId \in clientSessions[ws]

\* C39: in every reachable state of the hub the two subscriber maps agree (a
\* connection is in the subscriber set of session S exactly when S is in that
\* connection's session set), no session maps to an empty subscriber set, and a
\* connection that has closed is in no subscriber set.
C39_SubscriberMapsAgree ==
    /\ \A ws \in Conns, sessionId \in AllIds :
          Subscribed(ws, sessionId) <=> Follows(ws, sessionId)
    /\ \A sessionId \in DOMAIN sessionClients : sessionClients[sessionId] # {}
    /\ \A ws \in Conns :
          ~connOpen[ws] => \A sessionId \in DOMAIN sessionClients :
                              ws \notin sessionClients[sessionId]

\* c1 subscribed to s1 and s2 and closed: s1, which c2 also follows, keeps c2 alone
\* and s2 has left the map
C39_Witness ==
    /\ ~connOpen["c1"] /\ connOpen["c2"]
    /\ \A sessionId \in {"s1", "s2"} :
          \E k \in 1..Len(inbox) : /\ inbox[k].type = "start_session"
                                   /\ inbox[k].ws = "c1"
                                   /\ inbox[k].sessionId = sessionId
    /\ DOMAIN sessionClients = {"s1"}
    /\ sessionClients["s1"] = {"c2"}
    /\ DOMAIN clientSessions = {"c2"}

----------------------------------------------------------------------------
(* A session started again under the identifier of a removed one *)

\* one connection starts, feeds and ends s1, and starts it again
NextRestart ==
    \/ /\ nmsgs < MaxRestartEvents
       /\ RecvStart("c1", "s1", Undefined, Undefined, Undefined, Undefined, TRUE)
    \/ /\ nmsgs < MaxRestartEvents
       /\ RecvTranscript("c1", "s1", Word(9), Undefined, NoNumber, NoNumber)
    \/ \E t \in tasks : ResumeRolling(t, Planning)
    \/ /\ nmsgs < MaxRestartEvents
       /\ RecvVision("c1", "s1")
    \/ \E t \in tasks : ResumeVision(t, TRUE, Scene)
    \/ /\ nmsgs < MaxRestartEvents
       /\ RecvEnd("c1", "s1")
    \/ \E t \in tasks : ResumeDebrief(t, Wrapup)
    \/ \E t \in tasks : ResumeMetrics(t, TRUE)

SpecRestart == InitBare /\ [][NextRestart]_vars

\* the step handles a start_session for an identifier that is not registered and
\* that an earlier record carried
Restarts ==
    /\ step'.kind = "start_session"
    /\ ~MapHas(sessions, inbox'[Len(inbox')].sessionId)
    /\ \E o \in 1..Len(heap) : heap[o].sessionId = inbox'[Len(inbox')].sessionId

\* the record is as startSession builds it
Fresh(session) ==
    /\ session.buffer = <<>>
    /\ session.chunks = <<>>
    /\ session.overlays = <<>>
    /\ session.visionUpdates = <<>>
    /\ session.debrief = <<>>
    /\ session.lastSummaryAt = 0
    /\ session.lastSummaryChars = 0
    /\ session.lastVisionAt = 0

\* the suspended invocations whose session object is no longer the one registered
\* under its identifier
Orphans == {t \in tasks : ~MapHas(sessions, t.sessionId) \/ sessions[t.sessionId] # t.obj}

\* C40: starting a session with the identifier of a session that has been ended and
\* removed creates a new record with an empty buffer, empty overlay and vision
\* histories, no debrief and zeroed throttle fields, and no handler still in flight
\* for the removed session changes a field of the new record.
C40_RestartIsFresh ==
    [][/\ Restarts =>
             /\ step'.obj = Len(heap) + 1
             /\ Len(heap') = Len(heap) + 1
             /\ sessions'[inbox'[Len(inbox')].sessionId] = step'.obj
             /\ Fresh(heap'[step'.obj])
       /\ \A t \in Orphans :
             (Len(inbox') = Len(inbox) /\ step'.task = t.id /\ MapHas(sessions, t.sessionId))
                => heap'[sessions[t.sessionId]] = heap[sessions[t.sessionId]]]_vars

\* s1 was started again while a transcript handler of the removed s1 was suspended:
\* that handler has returned, its overlay is on the old record and the new record is
\* as it was created
C40_Witness ==
    /\ step.kind = "rollingSummary.return"
    /\ MapHas(sessions, "s1")
    /\ sessions["s1"] # step.obj
    /\ heap[step.obj].sessionId = "s1"
    /\ heap[step.obj].debrief # <<>>
    /\ Len(heap[step.obj].overlays) = 1
    /\ Fresh(heap[sessions["s1"]])

====
